---------------------------- MODULE Spec2Model ----------------------------
(***************************************************************************)
(* Health-data quality dashboard: the query layers of DataQualityAnalyzer  *)
(* and DataProfiler, the two objects shared by the dashboard sessions, and *)
(* the CSV importer that writes the tables they read.                      *)
(*                                                                         *)
(* Conventions.  A nullable SQL value is a set: {} is NULL and {v} is the  *)
(* value v.  A percentage is held in hundredths (10000 is 100.00), which   *)
(* is what ROUND(x, 2) produces.  ai_diagnosis_confidence is held in       *)
(* hundredths too, so SQL's BETWEEN 0 AND 1 reads 0 .. 100 on it.  A       *)
(* z-score z is held as the fraction num/den = z^2, with den > 0.          *)
(***************************************************************************)
EXTENDS Integers, Sequences, FiniteSets, TLC

VARIABLES
    patients,   \* committed rows of table patients (a sequence of records)
    refs,       \* committed reference tables: name sequences, id = position
    now,        \* number of importer runs started (stamps created_at)
    conn,       \* DataQualityAnalyzer.conn of the cached analyzer: 0 is None
    handles,    \* handles[h]: state of the h-th psycopg2 connection opened
    pc,         \* pc[s]: position of dashboard session s in its call
    opened,     \* opened[s]: handle the current/last call of s opened, or 0
    report,     \* report[s]: sections gathered so far by the call of s
    last,       \* last[s]: how the last call of s ended
    err,        \* err[s]: the error the last call of s raised
    imp,        \* the importer process (HealthDataImporter.run)
    qres,       \* results of the query methods called directly
    boot        \* the process environment and the objects built in it

vars == <<patients, refs, now, conn, handles, pc, opened, report, last, err,
          imp, qres, boot>>

(***************************************************************************)
(* Bounds of the model                                                     *)
(***************************************************************************)
MaxRows == 2        \* rows of a table drawn for the per-field checks
MaxBulk == 10       \* identical base rows of a table drawn for z-scores
MaxExtra == 2       \* further rows of such a table
MaxConns == 2       \* connections the analyzer opens in one behaviour
MaxImports == 1     \* importer runs in one behaviour
MaxCsvRows == 1     \* rows of a CSV file given to the importer
MaxGroupRows == 3   \* rows of a table drawn for the grouped queries
BigBulk == 50       \* base rows of a table with many outliers
MaxReruns == 3      \* importer runs in one behaviour of the importer alone
MaxLongCsv == 2     \* rows of a CSV file given to the importer alone
BigOutliers == 7    \* outliers on each monitored field of such a table

Sessions == {"s1", "s2"}

(***************************************************************************)
(* SQL values                                                              *)
(***************************************************************************)
None == {}
Some(v) == {v}
IsNull(x) == x = {}
Val(x) == CHOOSE v \in x : TRUE

RECURSIVE SumSeq(_)
SumSeq(s) == IF s = <<>> THEN 0 ELSE Head(s) + SumSeq(Tail(s))

\* the non-null values of column f, in row order
Column(t, f) ==
    LET all == [i \in DOMAIN t |-> t[i][f]]
        nn  == SelectSeq(all, LAMBDA x : ~IsNull(x))
    IN  [i \in DOMAIN nn |-> Val(nn[i])]

\* (a variant of CountStar that counts a nullable column instead of the rows)
CountStarOfAge(t) == Len(SelectSeq(t, LAMBDA r : ~IsNull(r.age)))

\* COUNT(*) and COUNT(f)
CountStar(t) == Len(t)
CountCol(t, f) == Len(Column(t, f))

\* (variants of Between: NULL taken as inside the range; the ends excluded)
BetweenNullPasses(x, lo, hi) ==
    IF IsNull(x) THEN TRUE ELSE Val(x) >= lo /\ Val(x) <= hi
BetweenExclusive(x, lo, hi) == ~IsNull(x) /\ Val(x) > lo /\ Val(x) < hi

\* x BETWEEN lo AND hi, as the condition of a CASE WHEN: NULL is not TRUE
Between(x, lo, hi) == ~IsNull(x) /\ Val(x) >= lo /\ Val(x) <= hi

\* gender IN ('Male', 'Female'), as the condition of a CASE WHEN
InGenders(x) == ~IsNull(x) /\ Val(x) \in {"Male", "Female"}

\* the CASE WHEN conditions of consistency_checks, by tracked field
AgeMin == 0
AgeMax == 120
BpMin == 60
BpMax == 200
HrMin == 40
HrMax == 200
TempMin == 35
TempMax == 42
SatMin == 1
SatMax == 5
AiMin == 0
AiMax == 100

TrackedFields == <<"age", "gender", "blood_pressure", "heart_rate",
                   "temperature", "patient_satisfaction",
                   "ai_diagnosis_confidence">>
Tracked == {TrackedFields[i] : i \in DOMAIN TrackedFields}

ValidCase(f, x) ==
    CASE f = "age" -> Between(x, AgeMin, AgeMax)
      [] f = "gender" -> InGenders(x)
      [] f = "blood_pressure" -> Between(x, BpMin, BpMax)
      [] f = "heart_rate" -> Between(x, HrMin, HrMax)
      [] f = "temperature" -> Between(x, TempMin, TempMax)
      [] f = "patient_satisfaction" -> Between(x, SatMin, SatMax)
      [] f = "ai_diagnosis_confidence" -> Between(x, AiMin, AiMax)

\* SUM(CASE WHEN <cond on f> THEN 1 ELSE 0 END): NULL over no rows
SumCase(t, f) ==
    IF t = <<>> THEN None
    ELSE Some(SumSeq([i \in DOMAIN t |-> IF ValidCase(f, t[i][f]) THEN 1 ELSE 0]))

DivZero == [err |-> "division_by_zero"]

\* (a variant of RoundPct that truncates to 2 decimals instead of rounding)
RoundPctTruncates(k, n) ==
    IF IsNull(k) THEN [err |-> "none", v |-> None]
    ELSE IF n = 0 THEN DivZero
    ELSE [err |-> "none", v |-> Some((10000 * Val(k)) \div n)]

\* ROUND(100.0 * k / n, 2) for a nullable count k and a count n.  The numeric
\* operators are strict (a NULL operand gives NULL before the division is
\* tried); a division by 0 raises; ROUND rounds half away from zero.
RoundPct(k, n) ==
    IF IsNull(k) THEN [err |-> "none", v |-> None]
    ELSE IF n = 0 THEN DivZero
    ELSE [err |-> "none", v |-> Some((20000 * Val(k) + n) \div (2 * n))]


(***************************************************************************)
(* DataQualityAnalyzer: the queries                                        *)
(***************************************************************************)
\* a query result is [err |-> "none", ...] or [err |-> <the error raised>]
Failed(r) == r.err # "none"

\* analyze_completeness: one row, total_records and a percentage per field
AnalyzeCompleteness(t) ==
    LET total == CountStar(t)
        col   == [f \in Tracked |-> RoundPct(Some(CountCol(t, f)), total)]
    IN  IF \E f \in Tracked : Failed(col[f]) THEN DivZero
        ELSE [err |-> "none", total_records |-> total,
              pct |-> [f \in Tracked |-> col[f].v]]

\* analyze_consistency: one row, total and a validity percentage per field
AnalyzeConsistency(t) ==
    LET total == CountStar(t)
        col   == [f \in Tracked |-> RoundPct(SumCase(t, f), total)]
    IN  IF \E f \in Tracked : Failed(col[f]) THEN DivZero
        ELSE [err |-> "none", total |-> total,
              pct |-> [f \in Tracked |-> col[f].v]]

\* MIN(f) and MAX(f): NULL over no non-null value
MinCol(t, f) ==
    LET c == Column(t, f)
    IN  IF c = <<>> THEN None
        ELSE Some(CHOOSE v \in {c[i] : i \in DOMAIN c} :
                    \A j \in DOMAIN c : v <= c[j])
MaxCol(t, f) ==
    LET c == Column(t, f)
    IN  IF c = <<>> THEN None
        ELSE Some(CHOOSE v \in {c[i] : i \in DOMAIN c} :
                    \A j \in DOMAIN c : v >= c[j])

\* analyze_freshness: oldest and newest created_at, their span, the count
AnalyzeFreshness(t) ==
    LET lo == MinCol(t, "created_at")
        hi == MaxCol(t, "created_at")
    IN  [err |-> "none", oldest_record |-> lo, newest_record |-> hi,
         data_span_days |-> IF IsNull(lo) THEN None ELSE Some(Val(hi) - Val(lo)),
         total_records |-> CountStar(t)]

\* The aggregates of CTE stats for one column c (its non-null values):
\* n, the sum and the sum of squares.  AVG is sum/n, NULL when n = 0;
\* STDDEV is the sample deviation sqrt((n*sq - sum^2) / (n*(n-1))), NULL
\* when n < 2.
Stats(c) ==
    [n |-> Len(c), sum |-> SumSeq(c),
     sq |-> SumSeq([i \in DOMAIN c |-> c[i] * c[i]])]

\* n*(n-1) times the square of STDDEV, NULL when STDDEV is
StddevSq(st) == IF st.n < 2 THEN None ELSE Some(st.n * st.sq - st.sum * st.sum)

\* (a variant of NullIfZero: the guard left out)
NullIfDropped(x) == x

\* NULLIF(x, 0)
NullIfZero(x) == IF ~IsNull(x) /\ Val(x) = 0 THEN None ELSE x

\* ABS(x - avg) / NULLIF(stddev, 0), as z^2 = num/den:
\*   z^2 = (x - sum/n)^2 * n*(n-1) / (n*sq - sum^2)
\*       = (n*x - sum)^2 * (n-1) / (n * (n*sq - sum^2))
\* The operators are strict; dividing by a stddev of 0 raises.
ZScore(x, st) ==
    LET d == NullIfZero(StddevSq(st))
    IN  IF IsNull(x) \/ st.n = 0 \/ IsNull(d) THEN [err |-> "none", v |-> None]
        ELSE IF Val(d) = 0 THEN DivZero
        ELSE [err |-> "none",
              v |-> Some([num |-> (st.n * Val(x) - st.sum) * (st.n * Val(x) - st.sum)
                                   * (st.n - 1),
                          den |-> st.n * Val(d)])]

\* (a variant of Exceeds that also takes z = 3)
ExceedsOrEquals(z) ==
    IF IsNull(z) THEN "N"
    ELSE IF Val(z).num >= 9 * Val(z).den THEN "T" ELSE "F"

\* z > 3 in SQL's three-valued logic: "T", "F" or "N" (NULL)
ZThreshold == 3
Exceeds(z) ==
    IF IsNull(z) THEN "N"
    ELSE IF Val(z).num > ZThreshold * ZThreshold * Val(z).den THEN "T" ELSE "F"

\* a OR b
Or3(a, b) ==
    IF a = "T" \/ b = "T" THEN "T"
    ELSE IF a = "N" \/ b = "N" THEN "N" ELSE "F"

\* the WHERE clause of analyze_anomalies on a row's three z-scores
AnomalyWhere(za, zb, zh) == Or3(Or3(Exceeds(za), Exceeds(zb)), Exceeds(zh))

\* (a variant of Limit: the cap left out)
LimitDropped(s, n) == s

\* LIMIT n: the first n rows of a result, all of them when there are fewer
Limit(s, n) == SubSeq(s, 1, IF Len(s) < n THEN Len(s) ELSE n)

AnomalyLimit == 20

\* analyze_anomalies: the rows the WHERE clause keeps, in scan order, at most
\* AnomalyLimit of them, each with its values and z-scores
AnalyzeAnomalies(t) ==
    LET sa == Stats(Column(t, "age"))
        sb == Stats(Column(t, "blood_pressure"))
        sh == Stats(Column(t, "heart_rate"))
        z  == [i \in DOMAIN t |->
                 [a |-> ZScore(t[i].age, sa),
                  b |-> ZScore(t[i].blood_pressure, sb),
                  h |-> ZScore(t[i].heart_rate, sh)]]
        out == [i \in DOMAIN t |->
                 [patient_id |-> t[i].patient_id, age |-> t[i].age,
                  blood_pressure |-> t[i].blood_pressure,
                  heart_rate |-> t[i].heart_rate,
                  age_zscore |-> z[i].a.v, bp_zscore |-> z[i].b.v,
                  hr_zscore |-> z[i].h.v]]
        kept == SelectSeq(out, LAMBDA r :
                  AnomalyWhere(r.age_zscore, r.bp_zscore, r.hr_zscore) = "T")
    IN  IF \E i \in DOMAIN t : Failed(z[i].a) \/ Failed(z[i].b) \/ Failed(z[i].h)
        THEN DivZero
        ELSE [err |-> "none",
              rows |-> Limit(kept, AnomalyLimit)]

(***************************************************************************)
(* Tables the queries are applied to                                       *)
(***************************************************************************)
\* a row of table patients with every tracked field inside its range
BaseRow ==
    [patient_id |-> 0, age |-> Some(50), gender |-> Some("Male"),
     blood_pressure |-> Some(120), heart_rate |-> Some(70),
     temperature |-> Some(37), diagnosis_id |-> Some(1),
     medication_id |-> Some(1), treatment_duration |-> Some(10),
     doctor_id |-> Some(1), hospital_id |-> Some(1), surgery_id |-> Some(1),
     recovery_time |-> Some(20), patient_satisfaction |-> Some(4),
     ai_diagnosis_confidence |-> Some(87), created_at |-> Some(1)]

\* one field of the base row replaced: NULL, each end of the expected range
\* and the value just outside each end
FieldCases ==
    << <<"age", Some(50)>>,
       <<"age", None>>, <<"age", Some(-1)>>, <<"age", Some(0)>>,
       <<"age", Some(120)>>, <<"age", Some(121)>>,
       <<"gender", None>>, <<"gender", Some("Female")>>,
       <<"gender", Some("Other")>>,
       <<"blood_pressure", None>>, <<"blood_pressure", Some(59)>>,
       <<"blood_pressure", Some(60)>>, <<"blood_pressure", Some(200)>>,
       <<"blood_pressure", Some(201)>>,
       <<"heart_rate", None>>, <<"heart_rate", Some(39)>>,
       <<"heart_rate", Some(40)>>, <<"heart_rate", Some(200)>>,
       <<"heart_rate", Some(201)>>,
       <<"temperature", None>>, <<"temperature", Some(34)>>,
       <<"temperature", Some(35)>>, <<"temperature", Some(42)>>,
       <<"temperature", Some(43)>>,
       <<"patient_satisfaction", None>>, <<"patient_satisfaction", Some(0)>>,
       <<"patient_satisfaction", Some(1)>>, <<"patient_satisfaction", Some(5)>>,
       <<"patient_satisfaction", Some(6)>>,
       <<"ai_diagnosis_confidence", None>>,
       <<"ai_diagnosis_confidence", Some(-1)>>,
       <<"ai_diagnosis_confidence", Some(0)>>,
       <<"ai_diagnosis_confidence", Some(100)>>,
       <<"ai_diagnosis_confidence", Some(101)>> >>

\* rows that move the mean and deviation of a monitored field
ZCases ==
    << <<"heart_rate", Some(71)>>, <<"heart_rate", Some(80)>>,
       <<"heart_rate", Some(200)>>, <<"blood_pressure", Some(250)>>,
       <<"age", None>>, <<"age", Some(51)>> >>

\* the non-decreasing index sequences of length at most n over 1..k
NonDecreasing(n, k) ==
    UNION {{ix \in [1..m -> 1..k] : \A i \in 1..(m - 1) : ix[i] <= ix[i + 1]} :
             m \in 0..n}

\* the table of the rows cases[ix[1]], cases[ix[2]], ... after `bulk` base
\* rows; patient_id is the row's position
MkTable(bulk, cases, ix) ==
    [i \in 1..(bulk + Len(ix)) |->
        IF i <= bulk THEN [BaseRow EXCEPT !.patient_id = i]
        ELSE [BaseRow EXCEPT !.patient_id = i,
                             ![cases[ix[i - bulk]][1]] = cases[ix[i - bulk]][2]]]

FieldTables ==
    {MkTable(0, FieldCases, ix) : ix \in NonDecreasing(MaxRows, Len(FieldCases))}

ZTables ==
    UNION {{MkTable(b, ZCases, ix) : ix \in NonDecreasing(MaxExtra, Len(ZCases))} :
             b \in (MaxBulk - 2)..MaxBulk}

\* BigBulk base rows, then k rows one above the base on each monitored field
BigCases == << <<"age", Some(51)>>, <<"blood_pressure", Some(121)>>,
               <<"heart_rate", Some(71)>> >>
BigTable(k) ==
    MkTable(BigBulk, BigCases, [i \in 1..(3 * k) |-> ((i - 1) \div k) + 1])
BigTables == {BigTable(k) : k \in (BigOutliers - 1)..BigOutliers}

QueryTables == FieldTables \cup ZTables \cup BigTables

(***************************************************************************)
(* Duplicate checks (display_duplicates_tab)                               *)
(***************************************************************************)
\* stable insertion of group g into a sequence ordered by count, descending
RECURSIVE InsertByCount(_, _)
InsertByCount(g, s) ==
    IF s = <<>> THEN <<g>>
    ELSE IF Head(s).occurrence_count > g.occurrence_count
         THEN <<Head(s)>> \o InsertByCount(g, Tail(s))
         ELSE <<g>> \o s

\* ORDER BY COUNT(*) DESC over groups listed in order of first appearance
RECURSIVE OrderByCountDesc(_)
OrderByCountDesc(s) ==
    IF s = <<>> THEN <<>>
    ELSE InsertByCount(Head(s), OrderByCountDesc(Tail(s)))

\* the sequence of the elements of a set of positions, ascending
RECURSIVE Ascending(_)
Ascending(S) ==
    IF S = {} THEN <<>>
    ELSE LET m == CHOOSE x \in S : \A y \in S : x <= y
         IN  <<m>> \o Ascending(S \ {m})

\* (a variant of ProfileKeys: hospital_id left out of the key)
ProfileKeysNoHospital(t) ==
    [i \in DOMAIN t |-> <<t[i].age, t[i].gender, t[i].diagnosis_id>>]

\* the GROUP BY key of each row of t
PatientIdKeys(t) == [i \in DOMAIN t |-> t[i].patient_id]
ProfileKeys(t) ==
    [i \in DOMAIN t |-> <<t[i].age, t[i].gender, t[i].diagnosis_id, t[i].hospital_id>>]

\* GROUP BY: the rows whose key is k, in scan order, and the row that opens
\* each group
MembersOf(keys, k) == Ascending({i \in DOMAIN keys : keys[i] = k})
FirstOfKey(keys) ==
    Ascending({i \in DOMAIN keys : \A j \in 1..(i - 1) : keys[j] # keys[i]})

\* (a variant of TrueDuplicates: HAVING COUNT(*) >= 1)
TrueDuplicatesHavingAny(t) ==
    LET keys == PatientIdKeys(t)
        first == FirstOfKey(keys)
        groups == [i \in DOMAIN first |->
                     [patient_id |-> t[first[i]].patient_id,
                      occurrence_count |-> Len(MembersOf(keys, keys[first[i]]))]]
    IN  [err |-> "none", rows |-> OrderByCountDesc(groups)]

\* true_duplicates_query: GROUP BY patient_id HAVING COUNT(*) > 1
TrueDuplicates(t) ==
    LET keys == PatientIdKeys(t)
        first == FirstOfKey(keys)
        groups == [i \in DOMAIN first |->
                     [patient_id |-> t[first[i]].patient_id,
                      occurrence_count |-> Len(MembersOf(keys, keys[first[i]]))]]
    IN  [err |-> "none",
         rows |-> OrderByCountDesc(
                     SelectSeq(groups, LAMBDA g : g.occurrence_count > 1))]

DuplicatesTabLimit == 50

\* duplicates_query: GROUP BY age, gender, diagnosis_id, hospital_id
\* HAVING COUNT(*) > 1 ORDER BY COUNT(*) DESC LIMIT n
PotentialDuplicates(t, n) ==
    LET keys == ProfileKeys(t)
        first == FirstOfKey(keys)
        groups == [i \in DOMAIN first |->
                     LET m == MembersOf(keys, keys[first[i]])
                     IN  [age |-> t[first[i]].age, gender |-> t[first[i]].gender,
                          diagnosis_id |-> t[first[i]].diagnosis_id,
                          hospital_id |-> t[first[i]].hospital_id,
                          occurrence_count |-> Len(m),
                          patient_ids |-> [j \in DOMAIN m |-> t[m[j]].patient_id]]]
    IN  [err |-> "none",
         rows |-> Limit(OrderByCountDesc(
                     SelectSeq(groups, LAMBDA g : g.occurrence_count > 1)), n)]

AnalyzeDuplicatesLimit == 10

\* analyze_duplicates: one read_sql of two statements; the cursor holds the
\* result of the last one, the potential duplicates, and the result of the
\* statement on patient_id is dropped
AnalyzeDuplicates(t) == PotentialDuplicates(t, AnalyzeDuplicatesLimit)

(***************************************************************************)
(* DataProfiler: the queries                                               *)
(*                                                                         *)
(* An average rounded to d decimals is held in units of 10^-d; the values  *)
(* averaged are not negative.  Rows that tie in an ORDER BY keep the order *)
(* in which their groups first appear.                                     *)
(***************************************************************************)
\* the rows of t at the positions m
RowsAt(t, m) == [j \in DOMAIN m |-> t[m[j]]]

\* GROUP BY: each group's key and rows, in order of first appearance
GroupBy(t, keys) ==
    LET first == FirstOfKey(keys)
    IN  [i \in DOMAIN first |->
           [key |-> keys[first[i]],
            rows |-> RowsAt(t, MembersOf(keys, keys[first[i]]))]]

\* ROUND(AVG(f), d), in units of 1/m of the unit f is held in: NULL over no
\* non-null value, halves rounded upwards
RoundAvg(t, f, m) ==
    LET c == Column(t, f)
    IN  IF c = <<>> THEN None
        ELSE Some((2 * m * SumSeq(c) + Len(c)) \div (2 * Len(c)))

\* COUNT(DISTINCT f)
CountDistinct(t, f) ==
    LET c == Column(t, f) IN Cardinality({c[i] : i \in DOMAIN c})

\* stable insertion of row g into rows ordered by column col, descending
InsertDesc(g, s, col) ==
    LET before == SelectSeq(s, LAMBDA x : x[col] > g[col])
        after  == SelectSeq(s, LAMBDA x : x[col] <= g[col])
    IN  before \o <<g>> \o after

\* ORDER BY col DESC
RECURSIVE OrderDesc(_, _)
OrderDesc(s, col) ==
    IF s = <<>> THEN <<>>
    ELSE InsertDesc(Head(s), OrderDesc(Tail(s), col), col)

\* p JOIN <reference table> ON p.f = its id: the rows of t whose f is the id
\* of a name of the table
Join(t, f, names) ==
    SelectSeq(t, LAMBDA r : ~IsNull(r[f]) /\ Val(r[f]) \in DOMAIN names)
NameKeys(t, f, names) == [i \in DOMAIN t |-> names[Val(t[i][f])]]

\* profile_patients_demographics: GROUP BY gender
ProfilePatientsDemographics(t) ==
    LET groups == GroupBy(t, [i \in DOMAIN t |-> t[i].gender])
        out == [i \in DOMAIN groups |->
                  LET g == groups[i].rows
                  IN  [gender |-> groups[i].key,
                       patient_count |-> Len(g),
                       avg_age |-> RoundAvg(g, "age", 10),
                       min_age |-> MinCol(g, "age"),
                       max_age |-> MaxCol(g, "age"),
                       avg_satisfaction |-> RoundAvg(g, "patient_satisfaction", 100),
                       avg_ai_confidence |->
                           RoundAvg(g, "ai_diagnosis_confidence", 10)]]
    IN  [err |-> "none", rows |-> OrderDesc(out, "patient_count")]

\* profile_diagnosis_distribution: JOIN diagnoses, GROUP BY diagnosis_name
ProfileDiagnosisDistribution(t, r) ==
    LET j == Join(t, "diagnosis_id", r.diagnoses)
        groups == GroupBy(j, NameKeys(j, "diagnosis_id", r.diagnoses))
        out == [i \in DOMAIN groups |->
                  LET g == groups[i].rows
                  IN  [diagnosis_name |-> groups[i].key,
                       patient_count |-> Len(g),
                       percentage |-> RoundPct(Some(Len(g)), Len(j)).v,
                       avg_age |-> RoundAvg(g, "age", 10),
                       avg_satisfaction |-> RoundAvg(g, "patient_satisfaction", 100),
                       avg_ai_confidence |->
                           RoundAvg(g, "ai_diagnosis_confidence", 10)]]
    IN  [err |-> "none", rows |-> OrderDesc(out, "patient_count")]

\* profile_hospital_performance: JOIN hospitals, GROUP BY hospital_name
ProfileHospitalPerformance(t, r) ==
    LET j == Join(t, "hospital_id", r.hospitals)
        groups == GroupBy(j, NameKeys(j, "hospital_id", r.hospitals))
        out == [i \in DOMAIN groups |->
                  LET g == groups[i].rows
                  IN  [hospital_name |-> groups[i].key,
                       patient_count |-> Len(g),
                       avg_satisfaction |-> RoundAvg(g, "patient_satisfaction", 100),
                       avg_recovery_time |-> RoundAvg(g, "recovery_time", 10),
                       doctor_count |-> CountDistinct(g, "doctor_id"),
                       diagnosis_types |-> CountDistinct(g, "diagnosis_id")]]
    IN  [err |-> "none", rows |-> OrderDesc(out, "patient_count")]

\* profile_medication_effectiveness: JOIN medications, GROUP BY medication_name
ProfileMedicationEffectiveness(t, r) ==
    LET j == Join(t, "medication_id", r.medications)
        groups == GroupBy(j, NameKeys(j, "medication_id", r.medications))
        out == [i \in DOMAIN groups |->
                  LET g == groups[i].rows
                  IN  [medication_name |-> groups[i].key,
                       prescriptions |-> Len(g),
                       avg_recovery_time |-> RoundAvg(g, "recovery_time", 10),
                       avg_satisfaction |-> RoundAvg(g, "patient_satisfaction", 100),
                       avg_treatment_duration |->
                           RoundAvg(g, "treatment_duration", 10)]]
    IN  [err |-> "none", rows |-> OrderDesc(out, "prescriptions")]

\* profile_doctor_workload: JOIN doctors JOIN diagnoses, GROUP BY doctor_name;
\* STRING_AGG(DISTINCT diagnosis_name) is held as the set of the names
ProfileDoctorWorkload(t, r) ==
    LET j == Join(Join(t, "doctor_id", r.doctors), "diagnosis_id", r.diagnoses)
        groups == GroupBy(j, NameKeys(j, "doctor_id", r.doctors))
        out == [i \in DOMAIN groups |->
                  LET g == groups[i].rows
                  IN  [doctor_name |-> groups[i].key,
                       patient_count |-> Len(g),
                       avg_satisfaction |-> RoundAvg(g, "patient_satisfaction", 100),
                       avg_ai_confidence |->
                           RoundAvg(g, "ai_diagnosis_confidence", 10),
                       specialties_count |-> CountDistinct(g, "diagnosis_id"),
                       diagnoses |-> {r.diagnoses[Val(g[k].diagnosis_id)] :
                                        k \in DOMAIN g}]]
    IN  [err |-> "none", rows |-> OrderDesc(out, "patient_count")]

\* the labels of the CASE of profile_age_groups, ascending as strings
AgeLabels == <<"18-29", "30-44", "45-59", "60-74", "75+">>

\* (a variant of AgeGroup whose first bucket ends at 30)
AgeGroupUpTo30(x) ==
    IF ~IsNull(x) /\ Val(x) <= 30 THEN "18-29"
    ELSE IF Between(x, 31, 44) THEN "30-44"
    ELSE IF Between(x, 45, 59) THEN "45-59"
    ELSE IF Between(x, 60, 74) THEN "60-74"
    ELSE "75+"

\* (a variant of AgeGroup in which a NULL age compares as 0)
AgeGroupNullAsZero(x) ==
    IF IsNull(x) \/ Val(x) < 30 THEN "18-29"
    ELSE IF Between(x, 30, 44) THEN "30-44"
    ELSE IF Between(x, 45, 59) THEN "45-59"
    ELSE IF Between(x, 60, 74) THEN "60-74"
    ELSE "75+"

\* CASE WHEN age < 30 ... ELSE '75+' END: a NULL age makes no WHEN true
AgeGroup(x) ==
    IF ~IsNull(x) /\ Val(x) < 30 THEN "18-29"
    ELSE IF Between(x, 30, 44) THEN "30-44"
    ELSE IF Between(x, 45, 59) THEN "45-59"
    ELSE IF Between(x, 60, 74) THEN "60-74"
    ELSE "75+"

\* profile_age_groups: GROUP BY age_group ORDER BY age_group
ProfileAgeGroups(t) ==
    LET keys == [i \in DOMAIN t |-> AgeGroup(t[i].age)]
        present == SelectSeq(AgeLabels,
                             LAMBDA l : \E i \in DOMAIN keys : keys[i] = l)
        out == [i \in DOMAIN present |->
                  LET g == RowsAt(t, MembersOf(keys, present[i]))
                  IN  [age_group |-> present[i],
                       patient_count |-> Len(g),
                       avg_blood_pressure |-> RoundAvg(g, "blood_pressure", 10),
                       avg_heart_rate |-> RoundAvg(g, "heart_rate", 10),
                       avg_recovery_time |-> RoundAvg(g, "recovery_time", 10),
                       avg_satisfaction |->
                           RoundAvg(g, "patient_satisfaction", 100)]]
    IN  [err |-> "none", rows |-> out]

\* CORR(f, g) over the rows where both are non-null, as its sign and its
\* square num/den: NULL when there is no such row or either has no variance
Corr(t, f, g) ==
    LET both == SelectSeq(t, LAMBDA r : ~IsNull(r[f]) /\ ~IsNull(r[g]))
        n   == Len(both)
        x   == [i \in DOMAIN both |-> Val(both[i][f])]
        y   == [i \in DOMAIN both |-> Val(both[i][g])]
        sxx == n * SumSeq([i \in DOMAIN x |-> x[i] * x[i]]) - SumSeq(x) * SumSeq(x)
        syy == n * SumSeq([i \in DOMAIN y |-> y[i] * y[i]]) - SumSeq(y) * SumSeq(y)
        sxy == n * SumSeq([i \in DOMAIN x |-> x[i] * y[i]]) - SumSeq(x) * SumSeq(y)
    IN  IF n = 0 \/ sxx = 0 \/ syy = 0 THEN None
        ELSE Some([sign |-> IF sxy > 0 THEN 1 ELSE IF sxy < 0 THEN -1 ELSE 0,
                   num |-> sxy * sxy, den |-> sxx * syy])

\* profile_correlations: one row
ProfileCorrelations(t) ==
    [err |-> "none",
     age_bp_correlation |-> Corr(t, "age", "blood_pressure"),
     age_hr_correlation |-> Corr(t, "age", "heart_rate"),
     age_recovery_correlation |-> Corr(t, "age", "recovery_time"),
     bp_hr_correlation |-> Corr(t, "blood_pressure", "heart_rate"),
     satisfaction_recovery_correlation |->
         Corr(t, "patient_satisfaction", "recovery_time"),
     ai_satisfaction_correlation |->
         Corr(t, "ai_diagnosis_confidence", "patient_satisfaction")]

\* SELECT COUNT(*) FROM patients
TotalPatients(t) == [err |-> "none", total_patients |-> CountStar(t)]

(***************************************************************************)
(* Construction: where the connection parameters come from                 *)
(*                                                                         *)
(* The environment is DATABASE_URL (set or not) and the config file:       *)
(* missing, without a [postgresql] section, with the section but without   *)
(* one of its keys, or complete.                                           *)
(***************************************************************************)
ConfigFiles == {"missing", "no_section", "no_key", "ok"}
Environments == [url : BOOLEAN, file : ConfigFiles]

\* DataQualityAnalyzer.load_config: ConfigParser.read skips a file that is
\* missing, and config['postgresql'] raises KeyError without the section
AnalyzerLoadConfig(file) ==
    IF file \in {"missing", "no_section"} THEN "KeyError" ELSE "none"

\* DataQualityAnalyzer.__init__: load_config, whatever the environment
AnalyzerNew(env) == AnalyzerLoadConfig(env.file)

\* (a variant of ConnectArgs in which a missing key has a default value)
ConnectArgsWithDefaults(env) == "none"

\* DataQualityAnalyzer.connect, up to psycopg2.connect: the URL when it is
\* set, else the keys of the section
ConnectArgs(env) ==
    IF env.url THEN "none"
    ELSE IF env.file = "no_key" THEN "KeyError" ELSE "none"

\* DataProfiler.load_config
ProfilerLoadConfig(file) ==
    IF file = "missing" THEN "FileNotFoundError"
    ELSE IF file = "no_section" THEN "KeyError" ELSE "none"

\* DataProfiler.create_engine (called by __init__): the URL when it is set,
\* else load_config and the keys of the section; no connection is made yet
CreateEngine(env) ==
    IF env.url THEN "none"
    ELSE IF ProfilerLoadConfig(env.file) # "none" THEN ProfilerLoadConfig(env.file)
    ELSE IF env.file = "no_key" THEN "KeyError" ELSE "none"

\* run_sql, up to psycopg2.connect: it takes DATABASE_URL only
RunSqlUrl(env) == IF env.url THEN "none" ELSE "RuntimeError"

Unbuilt(env) ==
    [env |-> env, analyzer |-> "none", profiler |-> "none", script |-> "none"]

\* after load_analyzers has built both objects
Booted == [env |-> [url |-> TRUE, file |-> "ok"],
           analyzer |-> "built", profiler |-> "built", script |-> "done"]

\* quality_analyzer = DataQualityAnalyzer(config_file)
AnalyzerInit ==
    /\ boot.analyzer = "none"
    /\ boot' = [boot EXCEPT !.analyzer =
                  IF AnalyzerNew(boot.env) = "none" THEN "built"
                  ELSE AnalyzerNew(boot.env)]
    /\ UNCHANGED <<patients, refs, now, conn, handles, pc, opened, report, last,
                   err, imp, qres>>

\* profiler = DataProfiler(config_file)
ProfilerInit ==
    /\ boot.profiler = "none"
    /\ boot' = [boot EXCEPT !.profiler =
                  IF CreateEngine(boot.env) = "none" THEN "built"
                  ELSE CreateEngine(boot.env)]
    /\ UNCHANGED <<patients, refs, now, conn, handles, pc, opened, report, last,
                   err, imp, qres>>

\* run_sql: the schema script, run once against DATABASE_URL.  Its statements
\* create the tables, which the stores of the model already have.
RunSql ==
    /\ boot.script = "none"
    /\ \E ok \in BOOLEAN :
         boot' = [boot EXCEPT !.script =
                    IF RunSqlUrl(boot.env) # "none" THEN RunSqlUrl(boot.env)
                    ELSE IF ok THEN "done" ELSE "connect_failed"]
    /\ UNCHANGED <<patients, refs, now, conn, handles, pc, opened, report, last,
                   err, imp, qres>>

(***************************************************************************)
(* The cached DataQualityAnalyzer and the dashboard sessions               *)
(*                                                                         *)
(* load_analyzers is a st.cache_resource: every session gets the one       *)
(* analyzer object, so conn is one field read and written by them all.     *)
(***************************************************************************)
Unset == [err |-> "unset"]
NoReport == [completeness |-> Unset, freshness |-> Unset,
             consistency |-> Unset, anomalies |-> Unset]
NoTab == [duplicates |-> Unset, true_duplicates |-> Unset]

\* DataQualityAnalyzer.connect: a new connection, assigned to self.conn.
\* Reading the keys of the section or psycopg2.connect may raise; then
\* self.conn keeps its value.
Connect(s, ok, next, empty) ==
    LET e == IF ConnectArgs(boot.env) # "none" THEN ConnectArgs(boot.env)
             ELSE IF ok THEN "none" ELSE "connect_failed"
    IN  /\ boot.analyzer = "built"
        /\ pc[s] = "idle"
        /\ Len(handles) < MaxConns
        /\ report' = [report EXCEPT ![s] = empty]
        /\ IF e = "none"
           THEN /\ handles' = Append(handles, "open")
                /\ conn' = Len(handles) + 1
                /\ opened' = [opened EXCEPT ![s] = Len(handles) + 1]
                /\ pc' = [pc EXCEPT ![s] = next]
                /\ last' = [last EXCEPT ![s] = "none"]
                /\ err' = [err EXCEPT ![s] = "none"]
           ELSE /\ opened' = [opened EXCEPT ![s] = 0]
                /\ last' = [last EXCEPT ![s] = "raised"]
                /\ err' = [err EXCEPT ![s] = e]
                /\ UNCHANGED <<handles, conn, pc>>
        /\ UNCHANGED <<patients, refs, now, imp, qres, boot>>

\* DataQualityAnalyzer.close: closes whatever self.conn holds now
Close(s) ==
    /\ handles' = IF conn # 0 THEN [handles EXCEPT ![conn] = "closed"] ELSE handles
    /\ pc' = [pc EXCEPT ![s] = "idle"]
    /\ last' = [last EXCEPT ![s] = "returned"]
    /\ UNCHANGED <<patients, refs, now, conn, opened, report, err, imp, qres, boot>>

\* (a variant of ReadSql that skips a failed metric and goes on)
ReadSqlSkipping(s, ok, r, section, next) ==
    LET e == IF handles[conn] = "closed" THEN "connection_closed"
             ELSE IF ~ok THEN "query_failed"
             ELSE r.err
    IN  /\ report' = [report EXCEPT ![s][section] =
                        IF e = "none" THEN r ELSE [err |-> e]]
        /\ pc' = [pc EXCEPT ![s] = next]
        /\ UNCHANGED <<patients, refs, now, conn, handles, opened, last, err,
                       imp, qres, boot>>

\* (a variant of ReadSql that deletes the records whose age is not valid)
ReadSqlCorrecting(s, ok, r, section, next) ==
    LET e == IF handles[conn] = "closed" THEN "connection_closed"
             ELSE IF ~ok THEN "query_failed"
             ELSE r.err
    IN  /\ IF e = "none"
           THEN /\ report' = [report EXCEPT ![s][section] = r]
                /\ pc' = [pc EXCEPT ![s] = next]
                /\ UNCHANGED <<last, err>>
           ELSE /\ pc' = [pc EXCEPT ![s] = "idle"]
                /\ last' = [last EXCEPT ![s] = "raised"]
                /\ err' = [err EXCEPT ![s] = e]
                /\ report' = [report EXCEPT ![s] = Unset]
        /\ patients' = SelectSeq(patients, LAMBDA row : ValidCase("age", row.age))
        /\ UNCHANGED <<refs, now, conn, handles, opened, imp, qres, boot>>

\* (a variant of ReadSql that keeps the result of a query on the analyzer
\* and returns it to the later calls)
ReadSqlCached(s, ok, r, section, next) ==
    LET e == IF handles[conn] = "closed" THEN "connection_closed"
             ELSE IF ~ok THEN "query_failed"
             ELSE r.err
        kept == {u \in Sessions : /\ report[u] # Unset
                                  /\ section \in DOMAIN report[u]
                                  /\ report[u][section].err = "none"}
    IN  /\ IF e = "none"
           THEN /\ report' = [report EXCEPT ![s][section] =
                                IF kept = {} THEN r
                                ELSE report[CHOOSE u \in kept : TRUE][section]]
                /\ pc' = [pc EXCEPT ![s] = next]
                /\ UNCHANGED <<last, err>>
           ELSE /\ pc' = [pc EXCEPT ![s] = "idle"]
                /\ last' = [last EXCEPT ![s] = "raised"]
                /\ err' = [err EXCEPT ![s] = e]
                /\ report' = [report EXCEPT ![s] = Unset]
        /\ UNCHANGED <<patients, refs, now, conn, handles, opened, imp, qres, boot>>

\* pd.read_sql(query, self.conn) with result r of the query on the committed
\* rows: raises on a closed connection, on a lost one (ok = FALSE) and on
\* the query's own error; nothing catches, so the call ends there and
\* close() is not reached.
ReadSql(s, ok, r, section, next) ==
    LET e == IF handles[conn] = "closed" THEN "connection_closed"
             ELSE IF ~ok THEN "query_failed"
             ELSE r.err
    IN  /\ IF e = "none"
           THEN /\ report' = [report EXCEPT ![s][section] = r]
                /\ pc' = [pc EXCEPT ![s] = next]
                /\ UNCHANGED <<last, err>>
           ELSE /\ pc' = [pc EXCEPT ![s] = "idle"]
                /\ last' = [last EXCEPT ![s] = "raised"]
                /\ err' = [err EXCEPT ![s] = e]
                /\ report' = [report EXCEPT ![s] = Unset]
        /\ UNCHANGED <<patients, refs, now, conn, handles, opened, imp, qres, boot>>

\* generate_quality_report, step by step
GqrConnect(s) == \E ok \in BOOLEAN : Connect(s, ok, "completeness", NoReport)

GqrCompleteness(s) ==
    /\ pc[s] = "completeness"
    /\ \E ok \in BOOLEAN :
         ReadSql(s, ok, AnalyzeCompleteness(patients), "completeness", "freshness")

GqrFreshness(s) ==
    /\ pc[s] = "freshness"
    /\ \E ok \in BOOLEAN :
         ReadSql(s, ok, AnalyzeFreshness(patients), "freshness", "consistency")

GqrConsistency(s) ==
    /\ pc[s] = "consistency"
    /\ \E ok \in BOOLEAN :
         ReadSql(s, ok, AnalyzeConsistency(patients), "consistency", "anomalies")

GqrAnomalies(s) ==
    /\ pc[s] = "anomalies"
    /\ \E ok \in BOOLEAN :
         ReadSql(s, ok, AnalyzeAnomalies(patients), "anomalies", "close")

GqrClose(s) == pc[s] = "close" /\ Close(s)

\* display_duplicates_tab, step by step
DupConnect(s) == \E ok \in BOOLEAN : Connect(s, ok, "dup_potential", NoTab)

DupPotential(s) ==
    /\ pc[s] = "dup_potential"
    /\ \E ok \in BOOLEAN :
         ReadSql(s, ok, PotentialDuplicates(patients, DuplicatesTabLimit),
                 "duplicates", "dup_true")

DupTrue(s) ==
    /\ pc[s] = "dup_true"
    /\ \E ok \in BOOLEAN :
         ReadSql(s, ok, TrueDuplicates(patients), "true_duplicates", "dup_close")

DupClose(s) == pc[s] = "dup_close" /\ Close(s)

(***************************************************************************)
(* The cached DataProfiler: generate_full_profile                          *)
(*                                                                         *)
(* Each read_sql takes a connection from the pool of the engine and gives  *)
(* it back when it ends, by return or by an exception; the pool belongs to *)
(* SQLAlchemy and is not part of the state.                                *)
(***************************************************************************)
NoProfile ==
    [demographics |-> Unset, diagnosis_distribution |-> Unset,
     hospital_performance |-> Unset, medication_effectiveness |-> Unset,
     doctor_workload |-> Unset, age_groups |-> Unset, correlations |-> Unset,
     total_patients |-> Unset]

\* pd.read_sql(query, self.engine) with result r of the query on the
\* committed rows, as the step of generate_full_profile that fills `section`
\* of the mapping `sofar`: a failure (no connection, a failing query) is not
\* caught, so the call ends there; after the last query the mapping is
\* returned
ProfileSql(s, ok, r, sofar, section, next) ==
    LET e == IF ~ok THEN "query_failed" ELSE r.err
    IN  /\ IF e = "none"
           THEN /\ report' = [report EXCEPT ![s] = [sofar EXCEPT ![section] = r]]
                /\ pc' = [pc EXCEPT ![s] = next]
                /\ last' = [last EXCEPT ![s] =
                              IF next = "idle" THEN "returned" ELSE "none"]
                /\ err' = [err EXCEPT ![s] = "none"]
           ELSE /\ pc' = [pc EXCEPT ![s] = "idle"]
                /\ last' = [last EXCEPT ![s] = "raised"]
                /\ err' = [err EXCEPT ![s] = e]
                /\ report' = [report EXCEPT ![s] = Unset]
        /\ opened' = [opened EXCEPT ![s] = 0]
        /\ UNCHANGED <<patients, refs, now, conn, handles, imp, qres, boot>>

\* generate_full_profile, step by step
GfpDemographics(s) ==
    /\ pc[s] = "idle"
    /\ boot.profiler = "built"
    /\ \E ok \in BOOLEAN :
         ProfileSql(s, ok, ProfilePatientsDemographics(patients), NoProfile,
                    "demographics", "diagnosis_distribution")

GfpDiagnosis(s) ==
    /\ pc[s] = "diagnosis_distribution"
    /\ \E ok \in BOOLEAN :
         ProfileSql(s, ok, ProfileDiagnosisDistribution(patients, refs), report[s],
                    "diagnosis_distribution", "hospital_performance")

GfpHospital(s) ==
    /\ pc[s] = "hospital_performance"
    /\ \E ok \in BOOLEAN :
         ProfileSql(s, ok, ProfileHospitalPerformance(patients, refs), report[s],
                    "hospital_performance", "medication_effectiveness")

GfpMedication(s) ==
    /\ pc[s] = "medication_effectiveness"
    /\ \E ok \in BOOLEAN :
         ProfileSql(s, ok, ProfileMedicationEffectiveness(patients, refs),
                    report[s], "medication_effectiveness", "doctor_workload")

GfpDoctor(s) ==
    /\ pc[s] = "doctor_workload"
    /\ \E ok \in BOOLEAN :
         ProfileSql(s, ok, ProfileDoctorWorkload(patients, refs), report[s],
                    "doctor_workload", "age_groups")

GfpAgeGroups(s) ==
    /\ pc[s] = "age_groups"
    /\ \E ok \in BOOLEAN :
         ProfileSql(s, ok, ProfileAgeGroups(patients), report[s],
                    "age_groups", "correlations")

GfpCorrelations(s) ==
    /\ pc[s] = "correlations"
    /\ \E ok \in BOOLEAN :
         ProfileSql(s, ok, ProfileCorrelations(patients), report[s],
                    "correlations", "total_patients")

GfpTotal(s) ==
    /\ pc[s] = "total_patients"
    /\ \E ok \in BOOLEAN :
         ProfileSql(s, ok, TotalPatients(patients), report[s],
                    "total_patients", "idle")

(***************************************************************************)
(* HealthDataImporter                                                      *)
(***************************************************************************)
CsvBase ==
    [Patient_ID |-> 1, Age |-> Some(50), Gender |-> Some("Male"),
     Blood_Pressure |-> Some(120), Heart_Rate |-> Some(70),
     Temperature |-> Some(37), Diagnosis |-> Some("Flu"),
     Medication |-> Some("Aspirin"), Treatment_Duration |-> Some(10),
     Doctor_Name |-> Some("Dr A"), Hospital_Name |-> Some("North"),
     Surgery_Type |-> Some("None"), Recovery_Time |-> Some(20),
     Patient_Satisfaction |-> Some(4), AI_Diagnosis_Confidence |-> Some(87)]

\* the rows a CSV file is made of
CsvRows ==
    { CsvBase,
      [CsvBase EXCEPT !.Age = Some(130), !.Gender = Some("Female"),
                      !.Blood_Pressure = Some(59), !.Heart_Rate = None,
                      !.Patient_Satisfaction = None,
                      !.Hospital_Name = Some("South")],
      [CsvBase EXCEPT !.Patient_ID = 2] }

CsvFiles == UNION {[1..n -> CsvRows] : n \in 0..MaxCsvRows}

NoRefs == [hospitals |-> <<>>, doctors |-> <<>>, diagnoses |-> <<>>,
           medications |-> <<>>, surgeries |-> <<>>]

\* safe_unique: the non-null values of a CSV column, each once, in order
SafeUnique(df, col) ==
    LET c == Column(df, col)
    IN  [i \in DOMAIN Ascending({i \in DOMAIN c : \A j \in 1..(i - 1) : c[j] # c[i]})
           |-> c[Ascending({k \in DOMAIN c : \A j \in 1..(k - 1) : c[j] # c[k]})[i]]]

\* INSERT ... ON CONFLICT (name) DO NOTHING
InsertNames(table, names) ==
    table \o SelectSeq(names, LAMBDA x : \A i \in DOMAIN table : table[i] # x)

\* import_reference_data, up to its commit
ImportReferenceData(r, df) ==
    [hospitals |-> InsertNames(r.hospitals, SafeUnique(df, "Hospital_Name")),
     doctors |-> InsertNames(r.doctors, SafeUnique(df, "Doctor_Name")),
     diagnoses |-> InsertNames(r.diagnoses, SafeUnique(df, "Diagnosis")),
     medications |-> InsertNames(r.medications, SafeUnique(df, "Medication")),
     surgeries |-> InsertNames(r.surgeries, SafeUnique(df, "Surgery_Type"))]

\* dict(cursor.fetchall()).get(name): the id of a name, None when absent
RefId(table, name) ==
    IF IsNull(name) \/ \A i \in DOMAIN table : table[i] # Val(name) THEN None
    ELSE Some(CHOOSE i \in DOMAIN table : table[i] = Val(name))

\* the tuple import_patients builds from a CSV row, as a row of patients
PatientTuple(r, row, stamp) ==
    [patient_id |-> row.Patient_ID, age |-> row.Age, gender |-> row.Gender,
     blood_pressure |-> row.Blood_Pressure, heart_rate |-> row.Heart_Rate,
     temperature |-> row.Temperature,
     diagnosis_id |-> RefId(r.diagnoses, row.Diagnosis),
     medication_id |-> RefId(r.medications, row.Medication),
     treatment_duration |-> row.Treatment_Duration,
     doctor_id |-> RefId(r.doctors, row.Doctor_Name),
     hospital_id |-> RefId(r.hospitals, row.Hospital_Name),
     surgery_id |-> RefId(r.surgeries, row.Surgery_Type),
     recovery_time |-> row.Recovery_Time,
     patient_satisfaction |-> row.Patient_Satisfaction,
     ai_diagnosis_confidence |-> row.AI_Diagnosis_Confidence,
     created_at |-> Some(stamp)]

\* (a variant of OnConflictUpdate that sets every column to the incoming one)
OnConflictReplace(old, new) == new

\* ON CONFLICT (patient_id) DO UPDATE SET age, blood_pressure,
\* patient_satisfaction = EXCLUDED.*
OnConflictUpdate(old, new) ==
    [old EXCEPT !.age = new.age, !.blood_pressure = new.blood_pressure,
                !.patient_satisfaction = new.patient_satisfaction]

\* (a variant of UpsertRow: a plain INSERT into a table without the unique
\* constraint)
UpsertRowAppending(t, new) == Append(t, new)

\* INSERT INTO patients VALUES <one tuple> ON CONFLICT ...
UpsertRow(t, new) ==
    IF \E i \in DOMAIN t : t[i].patient_id = new.patient_id
    THEN [i \in DOMAIN t |-> IF t[i].patient_id = new.patient_id
                             THEN OnConflictUpdate(t[i], new) ELSE t[i]]
    ELSE Append(t, new)

RECURSIVE UpsertAll(_, _)
UpsertAll(t, news) ==
    IF news = <<>> THEN t ELSE UpsertAll(UpsertRow(t, Head(news)), Tail(news))

\* one INSERT may not touch a row twice: two tuples of the statement with
\* one patient_id make it fail
SameIdTwice(df) ==
    \E i, j \in DOMAIN df : i < j /\ df[i].Patient_ID = df[j].Patient_ID

\* the importer before run: conn is self.conn (none is None), tx the state
\* of the transaction of the connection this run opened
ImpIdle == [pc |-> "idle", csv |-> <<>>, conn |-> "none", tx |-> "none",
            last |-> "none"]

\* (a variant of RunFails without the finally clause)
RunFailsNoFinally(i) ==
    IF i.conn = "open"
    THEN [ImpIdle EXCEPT !.conn = "open", !.tx = "rolled_back", !.last = "raised"]
    ELSE [ImpIdle EXCEPT !.last = "raised"]

\* run, from an exception to its end: rollback() if self.conn, then close()
\* in the finally clause, and the exception goes on to the caller
RunFails(i) ==
    IF i.conn = "open"
    THEN [ImpIdle EXCEPT !.conn = "closed", !.tx = "rolled_back", !.last = "raised"]
    ELSE [ImpIdle EXCEPT !.last = "raised"]

\* run, after import_patients has returned: close() in the finally clause
RunEnds(i) == [ImpIdle EXCEPT !.conn = "closed", !.tx = "committed", !.last = "done"]

\* importer = HealthDataImporter(); run: connect().  A failed connect
\* leaves self.conn None.  At most n runs are started.
ImpConnect(n) ==
    /\ imp.pc = "idle"
    /\ now < n
    /\ now' = now + 1
    /\ \/ imp' = [ImpIdle EXCEPT !.pc = "load", !.conn = "open", !.tx = "open"]
       \/ imp' = RunFails(ImpIdle)
    /\ UNCHANGED <<patients, refs, conn, handles, pc, opened, report, last, err,
                   qres, boot>>

\* run: load_csv_data(csv_path), the file being one of `files` or unreadable
ImpLoadCsv(files) ==
    /\ imp.pc = "load"
    /\ \/ \E df \in files : imp' = [imp EXCEPT !.pc = "refs", !.csv = df]
       \/ imp' = RunFails(imp)
    /\ UNCHANGED <<patients, refs, now, conn, handles, pc, opened, report, last,
                   err, qres, boot>>

\* (a variant of ImpReferenceData without the commit of its own)
ImpReferenceDataUncommitted ==
    /\ imp.pc = "refs"
    /\ imp' = [imp EXCEPT !.pc = "patients"]
    /\ UNCHANGED <<patients, refs, now, conn, handles, pc, opened, report, last,
                   err, qres, boot>>

\* run: import_reference_data(df), committed
ImpReferenceData ==
    /\ imp.pc = "refs"
    /\ refs' = ImportReferenceData(refs, imp.csv)
    /\ imp' = [imp EXCEPT !.pc = "patients"]
    /\ UNCHANGED <<patients, now, conn, handles, pc, opened, report, last, err,
                   qres, boot>>

\* run: import_patients(df), committed, then close(); or the INSERT fails,
\* and run rolls back, closes and re-raises
ImpPatients ==
    /\ imp.pc = "patients"
    /\ IF SameIdTwice(imp.csv)
       THEN /\ imp' = RunFails(imp)
            /\ UNCHANGED patients
       ELSE /\ patients' = UpsertAll(patients,
                              [i \in DOMAIN imp.csv |->
                                  PatientTuple(refs, imp.csv[i], now)])
            /\ imp' = RunEnds(imp)
    /\ UNCHANGED <<refs, now, conn, handles, pc, opened, report, last, err, qres, boot>>

\* run: an exception in import_reference_data or import_patients (a lost
\* connection, a failing statement): rollback(), close(), raise
ImpRaise ==
    /\ imp.pc \in {"refs", "patients"}
    /\ imp' = RunFails(imp)
    /\ UNCHANGED <<patients, refs, now, conn, handles, pc, opened, report, last,
                   err, qres, boot>>

(***************************************************************************)
(* The system: sessions on the shared analyzer, and the importer           *)
(***************************************************************************)
NoResult == [completeness |-> Unset, consistency |-> Unset, anomalies |-> Unset]

\* the store the dashboard starts on: empty, or holding an earlier import
ImportedRefs == ImportReferenceData(NoRefs, <<CsvBase>>)
InitStores ==
    { [patients |-> <<>>, refs |-> NoRefs],
      [patients |-> UpsertAll(<<>>, <<PatientTuple(ImportedRefs, CsvBase, 0)>>),
       refs |-> ImportedRefs] }

Init ==
    /\ \E st \in InitStores : patients = st.patients /\ refs = st.refs
    /\ now = 0
    /\ conn = 0
    /\ handles = <<>>
    /\ pc = [s \in Sessions |-> "idle"]
    /\ opened = [s \in Sessions |-> 0]
    /\ report = [s \in Sessions |-> NoReport]
    /\ last = [s \in Sessions |-> "none"]
    /\ err = [s \in Sessions |-> "none"]
    /\ imp = ImpIdle
    /\ qres = NoResult
    /\ boot = Booted

Next ==
    \/ \E s \in Sessions : GqrConnect(s)
    \/ \E s \in Sessions : GqrCompleteness(s)
    \/ \E s \in Sessions : GqrFreshness(s)
    \/ \E s \in Sessions : GqrConsistency(s)
    \/ \E s \in Sessions : GqrAnomalies(s)
    \/ \E s \in Sessions : GqrClose(s)
    \/ \E s \in Sessions : DupConnect(s)
    \/ \E s \in Sessions : DupPotential(s)
    \/ \E s \in Sessions : DupTrue(s)
    \/ \E s \in Sessions : DupClose(s)
    \/ \E s \in Sessions : GfpDemographics(s)
    \/ \E s \in Sessions : GfpDiagnosis(s)
    \/ \E s \in Sessions : GfpHospital(s)
    \/ \E s \in Sessions : GfpMedication(s)
    \/ \E s \in Sessions : GfpDoctor(s)
    \/ \E s \in Sessions : GfpAgeGroups(s)
    \/ \E s \in Sessions : GfpCorrelations(s)
    \/ \E s \in Sessions : GfpTotal(s)
    \/ ImpConnect(MaxImports)
    \/ ImpLoadCsv(CsvFiles)
    \/ ImpReferenceData
    \/ ImpPatients
    \/ ImpRaise

Spec == Init /\ [][Next]_vars

(***************************************************************************)
(* The importer alone: runs one after the other, on CSV files of up to     *)
(* MaxLongCsv rows, a patient_id possibly twice in a file                  *)
(***************************************************************************)
LongCsvFiles == UNION {[1..n -> CsvRows] : n \in 0..MaxLongCsv}

InitImport ==
    /\ \E st \in InitStores : patients = st.patients /\ refs = st.refs
    /\ now = 0
    /\ conn = 0
    /\ handles = <<>>
    /\ pc = [s \in Sessions |-> "idle"]
    /\ opened = [s \in Sessions |-> 0]
    /\ report = [s \in Sessions |-> NoReport]
    /\ last = [s \in Sessions |-> "none"]
    /\ err = [s \in Sessions |-> "none"]
    /\ imp = ImpIdle
    /\ qres = NoResult
    /\ boot = Booted

NextImport ==
    \/ ImpConnect(MaxReruns)
    \/ ImpLoadCsv(LongCsvFiles)
    \/ ImpReferenceData
    \/ ImpPatients
    \/ ImpRaise

SpecImport == InitImport /\ [][NextImport]_vars

(***************************************************************************)
(* Construction and first use: the constructors run in an environment      *)
(* drawn from Environments, then the sessions call generate_quality_report *)
(* and generate_full_profile on what was built                             *)
(***************************************************************************)
InitBoot ==
    /\ \E st \in InitStores : patients = st.patients /\ refs = st.refs
    /\ now = 0
    /\ conn = 0
    /\ handles = <<>>
    /\ pc = [s \in Sessions |-> "idle"]
    /\ opened = [s \in Sessions |-> 0]
    /\ report = [s \in Sessions |-> NoReport]
    /\ last = [s \in Sessions |-> "none"]
    /\ err = [s \in Sessions |-> "none"]
    /\ imp = ImpIdle
    /\ qres = NoResult
    /\ \E e \in Environments : boot = Unbuilt(e)

NextBoot ==
    \/ AnalyzerInit
    \/ ProfilerInit
    \/ RunSql
    \/ \E s \in Sessions : GqrConnect(s)
    \/ \E s \in Sessions : GqrCompleteness(s)
    \/ \E s \in Sessions : GqrFreshness(s)
    \/ \E s \in Sessions : GqrConsistency(s)
    \/ \E s \in Sessions : GqrAnomalies(s)
    \/ \E s \in Sessions : GqrClose(s)
    \/ \E s \in Sessions : GfpDemographics(s)
    \/ \E s \in Sessions : GfpDiagnosis(s)
    \/ \E s \in Sessions : GfpHospital(s)
    \/ \E s \in Sessions : GfpMedication(s)
    \/ \E s \in Sessions : GfpDoctor(s)
    \/ \E s \in Sessions : GfpAgeGroups(s)
    \/ \E s \in Sessions : GfpCorrelations(s)
    \/ \E s \in Sessions : GfpTotal(s)

SpecBoot == InitBoot /\ [][NextBoot]_vars

(***************************************************************************)
(* The queries as functions of the table: analyze_* called on an open      *)
(* connection over a table drawn from QueryTables                          *)
(***************************************************************************)
QCompleteness ==
    /\ qres' = [qres EXCEPT !.completeness = AnalyzeCompleteness(patients)]
    /\ UNCHANGED <<patients, refs, now, conn, handles, pc, opened, report, last,
                   err, imp, boot>>

QConsistency ==
    /\ qres' = [qres EXCEPT !.consistency = AnalyzeConsistency(patients)]
    /\ UNCHANGED <<patients, refs, now, conn, handles, pc, opened, report, last,
                   err, imp, boot>>

QAnomalies ==
    /\ qres' = [qres EXCEPT !.anomalies = AnalyzeAnomalies(patients)]
    /\ UNCHANGED <<patients, refs, now, conn, handles, pc, opened, report, last,
                   err, imp, boot>>

InitQuery ==
    /\ patients \in QueryTables
    /\ refs = NoRefs
    /\ now = 1
    /\ conn = 1
    /\ handles = <<"open">>
    /\ pc = [s \in Sessions |-> "idle"]
    /\ opened = [s \in Sessions |-> 0]
    /\ report = [s \in Sessions |-> NoReport]
    /\ last = [s \in Sessions |-> "none"]
    /\ err = [s \in Sessions |-> "none"]
    /\ imp = ImpIdle
    /\ qres = NoResult
    /\ boot = Booted

NextQuery == QCompleteness \/ QConsistency \/ QAnomalies

SpecQuery == InitQuery /\ [][NextQuery]_vars

(***************************************************************************)
(* The grouped queries as functions of the tables: the duplicate checks    *)
(* and the profile_* methods called on tables drawn from GroupTables       *)
(***************************************************************************)
GroupRefs ==
    [hospitals |-> <<"North", "South">>, doctors |-> <<"Dr A", "Dr B">>,
     diagnoses |-> <<"Flu", "Asthma">>, medications |-> <<"Aspirin", "Ibuprofen">>,
     surgeries |-> <<"None">>]

\* one field of the base row replaced: the ends of the age buckets, an age
\* below 18, NULL, and another value or NULL on the grouping columns
GroupCases ==
    << <<"age", Some(50)>>, <<"age", Some(17)>>, <<"age", Some(29)>>,
       <<"age", Some(30)>>, <<"age", Some(44)>>, <<"age", Some(45)>>,
       <<"age", Some(59)>>, <<"age", Some(60)>>, <<"age", Some(74)>>,
       <<"age", Some(75)>>, <<"age", None>>,
       <<"gender", Some("Female")>>, <<"gender", None>>,
       <<"diagnosis_id", Some(2)>>, <<"diagnosis_id", None>>,
       <<"hospital_id", Some(2)>>, <<"medication_id", Some(2)>>,
       <<"doctor_id", Some(2)>> >>

\* how patient_id runs over the rows: 1, 2, 3, ...; 1, 1, 2, 2, ...; 1, 1, 1, ...
IdPatterns == {"unique", "paired", "same"}
PatientIdAt(pat, i) ==
    CASE pat = "unique" -> i
      [] pat = "paired" -> (i + 1) \div 2
      [] pat = "same" -> 1

MkGroupTable(ix, pat) ==
    [i \in 1..Len(ix) |->
        [BaseRow EXCEPT !.patient_id = PatientIdAt(pat, i),
                        ![GroupCases[ix[i]][1]] = GroupCases[ix[i]][2]]]

\* n pairs of rows, each pair with an age of its own, then three rows of
\* one more age
ManyGroups(n) ==
    [i \in 1..(2 * n + 3) |->
        [BaseRow EXCEPT !.patient_id = i,
                        !.age = Some(IF i <= 2 * n THEN (i + 1) \div 2 ELSE 0)]]

\* rows without an age or of 80 years whose measures are not the base ones
ElderCases ==
    << [BaseRow EXCEPT !.age = None, !.blood_pressure = Some(150),
                       !.heart_rate = Some(91), !.recovery_time = Some(33),
                       !.patient_satisfaction = Some(1)],
       [BaseRow EXCEPT !.age = Some(80), !.blood_pressure = Some(121)],
       [BaseRow EXCEPT !.age = None, !.blood_pressure = None],
       [BaseRow EXCEPT !.age = Some(20), !.blood_pressure = Some(100)] >>

ElderTables ==
    {[i \in 1..Len(ix) |-> [ElderCases[ix[i]] EXCEPT !.patient_id = i]] :
        ix \in NonDecreasing(MaxGroupRows, Len(ElderCases))}

GroupTables ==
    {MkGroupTable(ix, pat) :
        ix \in NonDecreasing(MaxGroupRows, Len(GroupCases)), pat \in IdPatterns}
    \cup {ManyGroups(AnalyzeDuplicatesLimit + 1), ManyGroups(DuplicatesTabLimit + 1)}
    \cup ElderTables

NoCall == [call |-> "none"]

\* a method called on the tables, and its result.  The queries change
\* nothing, so a later call returns what the first returns: one call is kept.
Call(name, r) ==
    /\ qres = NoCall
    /\ qres' = [call |-> name, out |-> r]
    /\ UNCHANGED <<patients, refs, now, conn, handles, pc, opened, report, last,
                   err, imp, boot>>

QAnalyzeDuplicates == Call("analyze_duplicates", AnalyzeDuplicates(patients))
QDuplicatesQuery ==
    Call("duplicates_query", PotentialDuplicates(patients, DuplicatesTabLimit))
QTrueDuplicatesQuery == Call("true_duplicates_query", TrueDuplicates(patients))
QDemographics == Call("demographics", ProfilePatientsDemographics(patients))
QDiagnosis ==
    Call("diagnosis_distribution", ProfileDiagnosisDistribution(patients, refs))
QHospital ==
    Call("hospital_performance", ProfileHospitalPerformance(patients, refs))
QMedication ==
    Call("medication_effectiveness",
         ProfileMedicationEffectiveness(patients, refs))
QDoctor == Call("doctor_workload", ProfileDoctorWorkload(patients, refs))
QAgeGroups == Call("age_groups", ProfileAgeGroups(patients))
QCorrelations == Call("correlations", ProfileCorrelations(patients))

InitGroup ==
    /\ patients \in GroupTables
    /\ refs = GroupRefs
    /\ now = 1
    /\ conn = 1
    /\ handles = <<"open">>
    /\ pc = [s \in Sessions |-> "idle"]
    /\ opened = [s \in Sessions |-> 0]
    /\ report = [s \in Sessions |-> NoReport]
    /\ last = [s \in Sessions |-> "none"]
    /\ err = [s \in Sessions |-> "none"]
    /\ imp = ImpIdle
    /\ qres = NoCall
    /\ boot = Booted

NextGroup ==
    \/ QAnalyzeDuplicates
    \/ QDuplicatesQuery
    \/ QTrueDuplicatesQuery
    \/ QDemographics
    \/ QDiagnosis
    \/ QHospital
    \/ QMedication
    \/ QDoctor
    \/ QAgeGroups
    \/ QCorrelations

SpecGroup == InitGroup /\ [][NextGroup]_vars

(***************************************************************************)
(* The raw rows the views read for their charts                            *)
(* (display_visualizations_tab, display_correlations_tab), each query      *)
(* called on a table drawn from ViewTables.  A LIMIT without ORDER BY      *)
(* keeps the first rows of the scan.                                       *)
(***************************************************************************)
RawRowLimit == 1000

\* SELECT <fields> FROM the rows of t
Project(t, fields) == [i \in DOMAIN t |-> [f \in fields |-> t[i][f]]]

\* the rows of t with no NULL on any of the fields
WhereNotNull(t, fields) ==
    SelectSeq(t, LAMBDA row : \A f \in fields : ~IsNull(row[f]))

\* SELECT age FROM patients
AgeData(t) == [err |-> "none", rows |-> Project(t, {"age"})]

\* SELECT blood_pressure FROM patients WHERE blood_pressure IS NOT NULL
BpData(t) ==
    [err |-> "none",
     rows |-> Project(WhereNotNull(t, {"blood_pressure"}), {"blood_pressure"})]

\* SELECT heart_rate FROM patients WHERE heart_rate IS NOT NULL
HrData(t) ==
    [err |-> "none",
     rows |-> Project(WhereNotNull(t, {"heart_rate"}), {"heart_rate"})]

AiFields == {"ai_diagnosis_confidence", "patient_satisfaction"}

\* SELECT ai_diagnosis_confidence, patient_satisfaction ... LIMIT 1000
AiData(t) ==
    [err |-> "none",
     rows |-> Limit(Project(WhereNotNull(t, AiFields), AiFields), RawRowLimit)]

ScatterFields == {"age", "blood_pressure", "heart_rate", "recovery_time",
                  "patient_satisfaction", "ai_diagnosis_confidence"}

\* SELECT age, blood_pressure, heart_rate, recovery_time,
\* patient_satisfaction, ai_diagnosis_confidence ... LIMIT 1000
ScatterData(t) ==
    [err |-> "none",
     rows |-> Limit(Project(WhereNotNull(t, ScatterFields), ScatterFields),
                    RawRowLimit)]

\* tables of about RawRowLimit rows, without a NULL or with one NULL age
LargeTables ==
    {MkTable(n, FieldCases, ix) :
        n \in (RawRowLimit - 1)..(RawRowLimit + 1), ix \in {<<>>, <<2>>}}

ViewTables == FieldTables \cup LargeTables

QAgeData == Call("age_data", AgeData(patients))
QBpData == Call("bp_data", BpData(patients))
QHrData == Call("hr_data", HrData(patients))
QAiData == Call("ai_data", AiData(patients))
QScatterData == Call("scatter_data", ScatterData(patients))

InitView ==
    /\ patients \in ViewTables
    /\ refs = GroupRefs
    /\ now = 1
    /\ conn = 0
    /\ handles = <<>>
    /\ pc = [s \in Sessions |-> "idle"]
    /\ opened = [s \in Sessions |-> 0]
    /\ report = [s \in Sessions |-> NoReport]
    /\ last = [s \in Sessions |-> "none"]
    /\ err = [s \in Sessions |-> "none"]
    /\ imp = ImpIdle
    /\ qres = NoCall
    /\ boot = Booted

NextView ==
    \/ QAgeData
    \/ QBpData
    \/ QHrData
    \/ QAiData
    \/ QScatterData

SpecView == InitView /\ [][NextView]_vars

(***************************************************************************)
(* The methods of one DataQualityAnalyzer called one by one, in any order: *)
(* connect(), close() and the analyze_* methods, on an analyzer that may   *)
(* have no connection yet or a closed one.  qres is the last call and what *)
(* it gave.                                                                *)
(***************************************************************************)
\* (a variant of ReadSqlOn in which the method connects when it has to)
ReadSqlOnReconnecting(c, hs, r) == r

\* pd.read_sql(query, self.conn) where self.conn is c and the connections
\* are hs: None has no cursor, a closed connection gives none, and on an
\* open one the result is r, the query's
ReadSqlOn(c, hs, r) ==
    IF c = 0 THEN [err |-> "no_connection"]
    ELSE IF hs[c] = "closed" THEN [err |-> "connection_closed"]
    ELSE r

\* analyzer.connect()
DConnect ==
    /\ Len(handles) < MaxConns
    /\ \E ok \in BOOLEAN :
         IF ConnectArgs(boot.env) = "none" /\ ok
         THEN /\ handles' = Append(handles, "open")
              /\ conn' = Len(handles) + 1
              /\ qres' = [call |-> "connect", out |-> [err |-> "none"]]
         ELSE /\ qres' = [call |-> "connect", out |-> [err |-> "connect_failed"]]
              /\ UNCHANGED <<handles, conn>>
    /\ UNCHANGED <<patients, refs, now, pc, opened, report, last, err, imp, boot>>

\* analyzer.close(): if self.conn: self.conn.close()
DClose ==
    /\ handles' = IF conn # 0 THEN [handles EXCEPT ![conn] = "closed"] ELSE handles
    /\ qres' = [call |-> "close", out |-> [err |-> "none"]]
    /\ UNCHANGED <<patients, refs, now, conn, pc, opened, report, last, err,
                   imp, boot>>

\* analyzer.analyze_<name>(), r being the result of its query
DAnalyze(name, r) ==
    /\ qres' = [call |-> name, out |-> ReadSqlOn(conn, handles, r)]
    /\ UNCHANGED <<patients, refs, now, conn, handles, pc, opened, report, last,
                   err, imp, boot>>

DCompleteness == DAnalyze("analyze_completeness", AnalyzeCompleteness(patients))
DDuplicates == DAnalyze("analyze_duplicates", AnalyzeDuplicates(patients))
DFreshness == DAnalyze("analyze_freshness", AnalyzeFreshness(patients))
DConsistency == DAnalyze("analyze_consistency", AnalyzeConsistency(patients))
DAnomalies == DAnalyze("analyze_anomalies", AnalyzeAnomalies(patients))

\* the empty table and the tables of one row
DirectTables == {MkTable(0, FieldCases, ix) : ix \in NonDecreasing(1, Len(FieldCases))}

InitDirect ==
    /\ patients \in DirectTables
    /\ refs = NoRefs
    /\ now = 0
    /\ conn = 0
    /\ handles = <<>>
    /\ pc = [s \in Sessions |-> "idle"]
    /\ opened = [s \in Sessions |-> 0]
    /\ report = [s \in Sessions |-> NoReport]
    /\ last = [s \in Sessions |-> "none"]
    /\ err = [s \in Sessions |-> "none"]
    /\ imp = ImpIdle
    /\ qres = NoCall
    /\ boot = Booted

NextDirect ==
    \/ DConnect
    \/ DClose
    \/ DCompleteness
    \/ DDuplicates
    \/ DFreshness
    \/ DConsistency
    \/ DAnomalies

SpecDirect == InitDirect /\ [][NextDirect]_vars

(***************************************************************************)
(* Properties                                                              *)
(***************************************************************************)
Ended(s) == pc[s] = "idle" /\ last[s] # "none"
Querying(s) == pc[s] \in {"completeness", "freshness", "consistency",
                          "anomalies", "dup_potential", "dup_true"}
IsQualityReport(r) == "completeness" \in DOMAIN r
Set(r) == r.err # "unset"

\* C1: whenever a call of generate_quality_report or display_duplicates_tab
\* has ended, by return or by an exception, the connection it opened is
\* closed.
C1_ConnectionReleased ==
    \A s \in Sessions :
        Ended(s) /\ opened[s] # 0 => handles[opened[s]] = "closed"

\* C2: while a call is querying, the analyzer's connection is the one that
\* call opened, and it is open: no other call has replaced or closed it.
C2_SessionsIndependent ==
    \A s \in Sessions :
        Querying(s) => conn = opened[s] /\ handles[opened[s]] = "open"

\* C3: no call fails on the division by the record count: with zero records
\* the percentages are 0 or NULL and the report is still returned.
C3_ZeroRecordsNoFailure ==
    \A s \in Sessions : Ended(s) => err[s] # "division_by_zero"

\* C8: a returned quality report has the same record count in its
\* completeness section and in its consistency section.
C8_SameDenominator ==
    \A s \in Sessions :
        last[s] = "returned" /\ IsQualityReport(report[s])
            => report[s].completeness.total_records = report[s].consistency.total

(***************************************************************************)
(* Properties of the queries, stated on the table itself                   *)
(***************************************************************************)
Ok(r) == r.err = "none"
Rows == DOMAIN patients
NonNullRows(f) == {i \in Rows : patients[i][f] # {}}

\* the expected range of each tracked field, ends included
InRange(f, v) ==
    CASE f = "age" -> 0 <= v /\ v <= 120
      [] f = "gender" -> v = "Male" \/ v = "Female"
      [] f = "blood_pressure" -> 60 <= v /\ v <= 200
      [] f = "heart_rate" -> 40 <= v /\ v <= 200
      [] f = "temperature" -> 35 <= v /\ v <= 42
      [] f = "patient_satisfaction" -> 1 <= v /\ v <= 5
      [] f = "ai_diagnosis_confidence" -> 0 <= v /\ v <= 100
ValidRows(f) == {i \in NonNullRows(f) : InRange(f, Val(patients[i][f]))}

\* r hundredths is 100 * c / n rounded to 2 decimals, halves upwards
Nearest(r, c, n) == 2 * n * r - n <= 20000 * c /\ 20000 * c < 2 * n * r + n

\* C4: over a non-empty table, each field's validity percentage is at most
\* its completeness percentage.
C4_ValidityAtMostCompleteness ==
    patients # <<>> /\ Set(qres.completeness) /\ Set(qres.consistency)
        => /\ Ok(qres.completeness) /\ Ok(qres.consistency)
           /\ \A f \in Tracked :
                /\ ~IsNull(qres.consistency.pct[f])
                /\ ~IsNull(qres.completeness.pct[f])
                /\ Val(qres.consistency.pct[f]) <= Val(qres.completeness.pct[f])

C4_Witness ==
    /\ patients # <<>> /\ Set(qres.completeness) /\ Set(qres.consistency)
    /\ \E f \in Tracked :
         /\ Val(qres.consistency.pct[f]) < Val(qres.completeness.pct[f])
         /\ NonNullRows(f) # ValidRows(f)

\* C5: over a non-empty table, every completeness percentage and every
\* validity percentage lies in 0 .. 100.
C5_PercentagesInRange ==
    patients # <<>> =>
        /\ Set(qres.completeness) =>
             /\ Ok(qres.completeness)
             /\ \A f \in Tracked :
                  Val(qres.completeness.pct[f]) \in 0..10000
        /\ Set(qres.consistency) =>
             /\ Ok(qres.consistency)
             /\ \A f \in Tracked :
                  Val(qres.consistency.pct[f]) \in 0..10000

C5_Witness ==
    /\ Len(patients) >= 2 /\ Set(qres.completeness) /\ Set(qres.consistency)
    /\ \E f \in Tracked : NonNullRows(f) # Rows /\ NonNullRows(f) # {}
    /\ \E f \in Tracked : ValidRows(f) = {}

\* C6: analyze_completeness returns total_records and, per tracked field,
\* 100 * (rows where the field is non-null) / total_records rounded to 2
\* decimals; a field that is null in no row is 100.00.
C6_CompletenessFormula ==
    patients # <<>> /\ Set(qres.completeness)
        => /\ Ok(qres.completeness)
           /\ qres.completeness.total_records = Cardinality(Rows)
           /\ \A f \in Tracked :
                /\ Nearest(Val(qres.completeness.pct[f]),
                           Cardinality(NonNullRows(f)), Cardinality(Rows))
                /\ NonNullRows(f) = Rows => qres.completeness.pct[f] = {10000}

\* the count of some field is rounded upwards, and another field is 100.00
C6_Witness ==
    /\ patients # <<>> /\ Set(qres.completeness)
    /\ \E f \in Tracked :
         2 * ((10000 * Cardinality(NonNullRows(f))) % Len(patients))
             >= Len(patients)
    /\ \E f \in Tracked : NonNullRows(f) = Rows

\* C7: analyze_consistency returns, per tracked field, 100 * (rows where the
\* field is non-null and inside its range, ends included) / total rounded to
\* 2 decimals; an out-of-range value lowers validity and leaves
\* completeness at 100.00.
C7_ConsistencyFormula ==
    patients # <<>> /\ Set(qres.consistency)
        => /\ Ok(qres.consistency)
           /\ qres.consistency.total = Cardinality(Rows)
           /\ \A f \in Tracked :
                /\ Nearest(Val(qres.consistency.pct[f]),
                           Cardinality(ValidRows(f)), Cardinality(Rows))
                /\ (Set(qres.completeness) /\ NonNullRows(f) = Rows
                        /\ ValidRows(f) # Rows)
                     => /\ Val(qres.consistency.pct[f]) < 10000
                        /\ qres.completeness.pct[f] = {10000}

\* age has a value on an end of its range and a value just outside it
C7_Witness ==
    /\ Set(qres.consistency) /\ Set(qres.completeness)
    /\ \E i \in Rows : patients[i].age = {120}
    /\ \E i \in Rows : patients[i].age = {121}
    /\ NonNullRows("age") = Rows
    /\ Val(qres.consistency.pct["age"]) = 5000

(***************************************************************************)
(* z-scores from their definition: mean and sample deviation of the        *)
(* non-null values of a field, computed in two passes                      *)
(***************************************************************************)
Monitored == {"age", "blood_pressure", "heart_rate"}
ZColumn(f) == CASE f = "age" -> "age_zscore"
                [] f = "blood_pressure" -> "bp_zscore"
                [] f = "heart_rate" -> "hr_zscore"

RECURSIVE SumOver(_, _)
SumOver(S, g) ==
    IF S = {} THEN 0
    ELSE LET i == CHOOSE x \in S : TRUE IN g[i] + SumOver(S \ {i}, g)

\* for field f: the rows holding a value, their number n, the sum of the
\* values, and dev[i] = n * (value - mean) with the sum of its squares,
\* which is n^2 * (n-1) * stddev^2
FieldStat(f) ==
    LET S   == NonNullRows(f)
        n   == Cardinality(S)
        tot == SumOver(S, [i \in S |-> Val(patients[i][f])])
        dev == [i \in S |-> n * Val(patients[i][f]) - tot]
    IN  [rows |-> S, n |-> n, dev |-> dev,
         devsq |-> SumOver(S, [i \in S |-> dev[i] * dev[i]])]
FieldStats == [f \in Monitored |-> FieldStat(f)]

\* the z-score of row i is defined on a field with statistics st: a value,
\* and a deviation that is neither NULL (fewer than 2 values) nor 0
ZDefined(st, i) == i \in st.rows /\ st.n >= 2 /\ st.devsq > 0
\* z^2 = dev^2 * (n-1) / devsq, compared with 3^2
ZAbove3(st, i) ==
    ZDefined(st, i) /\ st.dev[i] * st.dev[i] * (st.n - 1) > 9 * st.devsq

\* a fraction in lowest terms
RECURSIVE Gcd(_, _)
Gcd(a, b) == IF b = 0 THEN a ELSE Gcd(b, a % b)
Lowest(a, b) == <<a \div Gcd(a, b), b \div Gcd(a, b)>>

\* the rows with a z-score above 3 on one of the fields F
FlaggedOn(sts, F) == {i \in Rows : \E f \in F : ZAbove3(sts[f], i)}
IdsOf(S) == {patients[i].patient_id : i \in S}
ReturnedIds ==
    {qres.anomalies.rows[k].patient_id : k \in DOMAIN qres.anomalies.rows}
RowOf(id) == CHOOSE i \in Rows : patients[i].patient_id = id

ZeroStddev(st) == st.n >= 1 /\ st.devsq = 0

\* C10: when the deviation of a monitored field is 0, analyze_anomalies does
\* not fail, the field's z-score is null in every row it returns, and the
\* rows it returns are those the other two fields flag.
C10_ZeroStddevIsNull ==
    Set(qres.anomalies) =>
        LET sts == FieldStats
        IN  \A f \in Monitored :
              ZeroStddev(sts[f])
                => /\ Ok(qres.anomalies)
                   /\ \A k \in DOMAIN qres.anomalies.rows :
                        qres.anomalies.rows[k][ZColumn(f)] = {}
                   /\ LET others == FlaggedOn(sts, Monitored \ {f})
                      IN  /\ ReturnedIds \subseteq IdsOf(others)
                          /\ Cardinality(others) <= 20
                               => ReturnedIds = IdsOf(others)

\* age has deviation 0 over several rows while heart_rate flags a record
C10_Witness ==
    /\ Set(qres.anomalies) /\ Ok(qres.anomalies)
    /\ LET sts == FieldStats
       IN  /\ ZeroStddev(sts["age"]) /\ sts["age"].n >= 2
           /\ \E i \in Rows : ZAbove3(sts["heart_rate"], i)
    /\ qres.anomalies.rows # <<>>

\* the columns of a row analyze_anomalies returns
AnomalyColumns == {"patient_id", "age", "blood_pressure", "heart_rate",
                   "age_zscore", "bp_zscore", "hr_zscore"}

\* C11: analyze_anomalies returns at most 20 rows, 20 when more than 20
\* records are flagged; each row carries the identifier of a record, that
\* record's age, blood_pressure and heart_rate, and its three z-scores, null
\* exactly where the z-score is not computable.
C11_AtMost20Rows ==
    Set(qres.anomalies)
        => LET sts == FieldStats
               out == qres.anomalies.rows
           IN  /\ Ok(qres.anomalies)
               /\ Len(out) <= 20
               /\ Cardinality(FlaggedOn(sts, Monitored)) >= 20 => Len(out) = 20
               /\ \A k \in DOMAIN out :
                    /\ DOMAIN out[k] = AnomalyColumns
                    /\ \E i \in Rows :
                         /\ out[k].patient_id = patients[i].patient_id
                         /\ \A f \in Monitored :
                              /\ out[k][f] = patients[i][f]
                              /\ IsNull(out[k][ZColumn(f)]) <=> ~ZDefined(sts[f], i)

\* more than 20 records are flagged and 20 rows are returned
C11_Witness ==
    /\ Set(qres.anomalies) /\ Ok(qres.anomalies)
    /\ Cardinality(FlaggedOn(FieldStats, Monitored)) > 20
    /\ Len(qres.anomalies.rows) = 20

(***************************************************************************)
(* Properties of the grouped queries, stated on the tables                 *)
(***************************************************************************)
Called(name) == qres.call = name
Occurrences(id) == Cardinality({i \in Rows : patients[i].patient_id = id})

KeyFields == {"age", "gender", "diagnosis_id", "hospital_id"}
SameProfile(a, b) == \A f \in KeyFields : a[f] = b[f]
Alike(i) == {j \in Rows : SameProfile(patients[i], patients[j])}
\* the records that open a group of more than one record
DuplicateGroups ==
    {i \in Rows : Cardinality(Alike(i)) > 1 /\ \A j \in Alike(i) : i <= j}
PotentialCalls == {"duplicates_query", "analyze_duplicates"}
CapOf(call) == IF call = "duplicates_query" THEN 50 ELSE 10

\* C13: each returned potential-duplicate group is the set of all records
\* with one (age, gender, diagnosis_id, hospital_id): its occurrence_count
\* is their number, at least 2, and patient_ids lists their identifiers; no
\* two groups have the same tuple, so records that differ in one key field
\* are in different groups; single records are not returned; while the
\* groups fit under the cap every group is returned.
C13_PotentialGroups ==
    qres.call \in PotentialCalls
        => LET out == qres.out.rows
           IN  /\ Ok(qres.out)
               /\ \A k \in DOMAIN out :
                    /\ out[k].occurrence_count >= 2
                    /\ Len(out[k].patient_ids) = out[k].occurrence_count
                    /\ \E i \in DuplicateGroups :
                         /\ SameProfile(out[k], patients[i])
                         /\ out[k].occurrence_count = Cardinality(Alike(i))
                         /\ {out[k].patient_ids[n] : n \in DOMAIN out[k].patient_ids}
                              = {patients[j].patient_id : j \in Alike(i)}
               /\ \A k, l \in DOMAIN out : SameProfile(out[k], out[l]) => k = l
               /\ Cardinality(DuplicateGroups) <= CapOf(qres.call)
                    => \A i \in DuplicateGroups :
                         \E k \in DOMAIN out : SameProfile(out[k], patients[i])

\* two records with two identifiers and one tuple are returned as one
\* group, beside a record that differs from them in hospital_id only
C13_Witness ==
    /\ Called("duplicates_query")
    /\ Len(qres.out.rows) = 1
    /\ qres.out.rows[1].occurrence_count = 2
    /\ qres.out.rows[1].patient_ids[1] # qres.out.rows[1].patient_ids[2]
    /\ \E i, j \in Rows :
         /\ \A f \in KeyFields \ {"hospital_id"} : patients[i][f] = patients[j][f]
         /\ patients[i].hospital_id # patients[j].hospital_id

\* C14: every operation that returns potential duplicates returns them by
\* descending occurrence count, the groups with the highest counts, all of
\* them up to 50 and 50 of them beyond.
C14_OrderedAndCappedAt50 ==
    qres.call \in PotentialCalls
        => LET out == qres.out.rows
           IN  /\ \A k \in DOMAIN out : k > 1 =>
                    out[k - 1].occurrence_count >= out[k].occurrence_count
               /\ \A i \in DuplicateGroups :
                    (\A k \in DOMAIN out : ~SameProfile(out[k], patients[i]))
                      => \A k \in DOMAIN out :
                           out[k].occurrence_count >= Cardinality(Alike(i))
               /\ Len(out) = IF Cardinality(DuplicateGroups) < 50
                             THEN Cardinality(DuplicateGroups) ELSE 50

\* the age buckets as ranges of integer ages
InBucket(l, a) ==
    CASE l = "18-29" -> a <= 29
      [] l = "30-44" -> 30 <= a /\ a <= 44
      [] l = "45-59" -> 45 <= a /\ a <= 59
      [] l = "60-74" -> 60 <= a /\ a <= 74
      [] l = "75+" -> 75 <= a
Buckets == {"18-29", "30-44", "45-59", "60-74", "75+"}
GroupRow(l) ==
    {k \in DOMAIN qres.out.rows : qres.out.rows[k].age_group = l}

\* C15: profile_age_groups puts every record with an integer age in exactly
\* one bucket, the one whose range holds the age: 29 in 18-29, 30 and 44 in
\* 30-44, 45 in 45-59, 74 in 60-74, 75 in 75+; that bucket is returned.
C15_AgeBucketsPartition ==
    Called("age_groups")
        => /\ Ok(qres.out)
           /\ \A i \in NonNullRows("age") :
                LET a == Val(patients[i].age)
                IN  /\ Cardinality({l \in Buckets : InBucket(l, a)}) = 1
                    /\ InBucket(AgeGroup(patients[i].age), a)
                    /\ Cardinality(GroupRow(AgeGroup(patients[i].age))) = 1
           /\ \A l \in Buckets : \A k \in GroupRow(l) :
                qres.out.rows[k].patient_count
                    >= Cardinality({i \in NonNullRows("age") :
                                       InBucket(l, Val(patients[i].age))})
           /\ AgeGroup({29}) = "18-29" /\ AgeGroup({30}) = "30-44"
           /\ AgeGroup({44}) = "30-44" /\ AgeGroup({45}) = "45-59"
           /\ AgeGroup({74}) = "60-74" /\ AgeGroup({75}) = "75+"

\* records aged 29 and 30 are counted in two buckets
C15_Witness ==
    /\ Called("age_groups")
    /\ \E i, j \in Rows : patients[i].age = {29} /\ patients[j].age = {30}
    /\ GroupRow("18-29") # {} /\ GroupRow("30-44") # {}

\* C16: profile_age_groups returns the 5 buckets, each once and with a
\* count that is not negative, a bucket without records too, and the
\* counts add up to the number of records.
C16_FiveBucketsSumToTotal ==
    Called("age_groups")
        => /\ Len(qres.out.rows) = 5
           /\ \A l \in Buckets : Cardinality(GroupRow(l)) = 1
           /\ \A k \in DOMAIN qres.out.rows : qres.out.rows[k].patient_count >= 0
           /\ SumSeq([k \in DOMAIN qres.out.rows |-> qres.out.rows[k].patient_count])
                = Len(patients)

GroupedCalls == {"demographics", "age_groups", "diagnosis_distribution",
                 "hospital_performance", "medication_effectiveness",
                 "doctor_workload"}
CountMetric(call) ==
    IF call = "medication_effectiveness" THEN "prescriptions" ELSE "patient_count"

\* C17: each grouped profile query returns its rows by descending count
\* metric (patient_count, or prescriptions for the medications).
C17_OrderedByCountDesc ==
    qres.call \in GroupedCalls
        => \A k \in DOMAIN qres.out.rows : k > 1 =>
             qres.out.rows[k - 1][CountMetric(qres.call)]
                 >= qres.out.rows[k][CountMetric(qres.call)]

(***************************************************************************)
(* Properties of the calls: failures, frame, construction                  *)
(***************************************************************************)
NoSectionSet(r) == r = Unset \/ \A k \in DOMAIN r : r[k] = Unset
AllSectionsOk(r) == r # Unset /\ \A k \in DOMAIN r : r[k].err = "none"

\* C18: a call in which a query failed has ended with that error and with
\* no section of a report (the failed query is not run again, nothing is
\* run after it, nothing is returned), and a call that returned a mapping
\* returned every section, each from a query that succeeded.
C18_FailurePropagates ==
    \A s \in Sessions :
        /\ last[s] = "raised"
             => pc[s] = "idle" /\ err[s] # "none" /\ NoSectionSet(report[s])
        /\ last[s] = "returned"
             => err[s] = "none" /\ AllSectionsOk(report[s])

\* a query of one session has failed after the other session got a mapping
C18_Witness ==
    \E s, u \in Sessions :
        /\ last[s] = "raised" /\ err[s] = "query_failed" /\ report[s] = Unset
        /\ last[u] = "returned" /\ AllSectionsOk(report[u])

\* C19: a step of a session (of generate_quality_report, of the duplicates
\* tab, of generate_full_profile) leaves table patients and the reference
\* tables as they are.
C19_ReadOnly ==
    [][(pc' # pc \/ report' # report \/ last' # last \/ err' # err
          \/ conn' # conn \/ handles' # handles \/ opened' # opened)
         => (patients' = patients /\ refs' = refs)]_vars

\* a session got a mapping from tables an import had written to
C19_Witness ==
    \E s \in Sessions :
        /\ last[s] = "returned" /\ AllSectionsOk(report[s])
        /\ now > 0 /\ imp.last = "done" /\ patients # <<>>

\* C20: with DATABASE_URL set, and also without it beside a complete config
\* file, both constructors succeed and no call fails on the config file.
C20_UrlBeforeConfig ==
    boot.env.url \/ boot.env.file = "ok"
        => /\ boot.analyzer \in {"none", "built"}
           /\ boot.profiler \in {"none", "built"}
           /\ \A s \in Sessions : err[s] \notin {"KeyError", "FileNotFoundError"}

(***************************************************************************)
(* Properties of the configuration, the freshness of reports, the importer *)
(***************************************************************************)
ConfigError == ~boot.env.url /\ boot.env.file # "ok"

\* C21: with DATABASE_URL unset and the config file missing, without its
\* [postgresql] section or without one of its keys, the analyzer and the
\* profiler raise (at construction or at connect) and the schema script
\* raises; no connection is opened, no query step is reached, no section of
\* a report is ever filled and no call returns.
C21_ConfigErrorBeforeAnyQuery ==
    ConfigError =>
        /\ handles = <<>> /\ conn = 0
        /\ boot.analyzer \in {"none", IF boot.env.file = "no_key" THEN "built"
                                      ELSE "KeyError"}
        /\ boot.profiler \in {"none", "KeyError", "FileNotFoundError"}
        /\ boot.script \in {"none", "RuntimeError"}
        /\ \A s \in Sessions :
              /\ pc[s] = "idle"
              /\ NoSectionSet(report[s])
              /\ last[s] \in {"none", "raised"}
              /\ last[s] = "raised" => err[s] = "KeyError"

\* the file has the section but lacks a key: the analyzer was built, and
\* the call of generate_quality_report raised at connect
C21_Witness ==
    /\ ConfigError /\ boot.env.file = "no_key" /\ boot.analyzer = "built"
    /\ boot.profiler = "KeyError" /\ boot.script = "RuntimeError"
    /\ \E s \in Sessions : last[s] = "raised" /\ err[s] = "KeyError"

RawCalls == {"age_data", "bp_data", "hr_data", "ai_data", "scatter_data"}

\* C22: a query of a view that returns raw patient rows returns at most
\* RawRowLimit (1000) of them, whatever the size of table patients.
C22_AtMost1000RawRows ==
    qres.call \in RawCalls => Len(qres.out.rows) <= RawRowLimit

\* what the query behind section k of a mapping returns on the tables as
\* they are now
QueryOf(k) ==
    CASE k = "completeness" -> AnalyzeCompleteness(patients)
      [] k = "freshness" -> AnalyzeFreshness(patients)
      [] k = "consistency" -> AnalyzeConsistency(patients)
      [] k = "anomalies" -> AnalyzeAnomalies(patients)
      [] k = "duplicates" -> PotentialDuplicates(patients, DuplicatesTabLimit)
      [] k = "true_duplicates" -> TrueDuplicates(patients)
      [] k = "demographics" -> ProfilePatientsDemographics(patients)
      [] k = "diagnosis_distribution" -> ProfileDiagnosisDistribution(patients, refs)
      [] k = "hospital_performance" -> ProfileHospitalPerformance(patients, refs)
      [] k = "medication_effectiveness" ->
             ProfileMedicationEffectiveness(patients, refs)
      [] k = "doctor_workload" -> ProfileDoctorWorkload(patients, refs)
      [] k = "age_groups" -> ProfileAgeGroups(patients)
      [] k = "correlations" -> ProfileCorrelations(patients)
      [] k = "total_patients" -> TotalPatients(patients)

SectionNames == DOMAIN NoReport \cup DOMAIN NoTab \cup DOMAIN NoProfile

\* section k of the mapping of session s is filled by this step
Filled(s, k) ==
    /\ k \in DOMAIN report'[s] /\ Set(report'[s][k])
    /\ k \notin DOMAIN report[s] \/ report[s][k] # report'[s][k]

\* C23: every section a call puts in its mapping is the result of its query
\* on the tables as committed when that query runs: nothing is taken from
\* an earlier call, so a call made after an import shows the imported rows.
C23_RecomputedFresh ==
    [][\A s \in Sessions : \A k \in SectionNames :
         Filled(s, k) => report'[s][k] = QueryOf(k)]_vars

\* two quality reports from the one analyzer, an import committed between
\* them: the later one counts the rows as they are now, the earlier one
\* counted fewer
C23_Witness ==
    \E s, u \in Sessions :
        /\ last[s] = "returned" /\ IsQualityReport(report[s])
        /\ last[u] = "returned" /\ IsQualityReport(report[u])
        /\ imp.last = "done"
        /\ report[s].completeness.total_records < Len(patients)
        /\ report[s].consistency.total < Len(patients)
        /\ report[u].completeness.total_records = Len(patients)
        /\ report[u].consistency.total = Len(patients)
        /\ report[u].freshness.total_records = Len(patients)

\* C24: whatever runs of the importer came before, and also after a file
\* with a patient_id that is stored already, no two rows of patients have one
\* patient_id: the true-duplicate query returns no group.
C24_OneRowPerPatientId ==
    /\ \A i, j \in DOMAIN patients :
          patients[i].patient_id = patients[j].patient_id => i = j
    /\ TrueDuplicates(patients) = [err |-> "none", rows |-> <<>>]

\* the second run has imported a patient_id that the first run had stored:
\* the one row has the age of the second file and the gender of the first
C24_Witness ==
    /\ imp.last = "done" /\ now = 2 /\ Len(patients) = 1
    /\ patients[1].patient_id = 1
    /\ patients[1].created_at = Some(1)
    /\ patients[1].age = Some(50)
    /\ patients[1].gender = Some("Female")

GqrQuerySteps == {"completeness", "freshness", "consistency", "anomalies"}

\* C25: a call of generate_quality_report fills its sections in the order
\* completeness, freshness, consistency, anomalies; each of its queries is
\* issued on the connection its connect() opened, which is open then (none
\* before connect, none after close); and the mapping it returns has the
\* four sections.
C25_FixedSequence ==
    \A s \in Sessions :
        IsQualityReport(report[s]) =>
            /\ Set(report[s].freshness) => Set(report[s].completeness)
            /\ Set(report[s].consistency) => Set(report[s].freshness)
            /\ Set(report[s].anomalies) => Set(report[s].consistency)
            /\ pc[s] \in GqrQuerySteps
                 => /\ opened[s] # 0 /\ conn = opened[s]
                    /\ handles[conn] = "open"
            /\ last[s] = "returned"
                 => \A k \in DOMAIN NoReport : Set(report[s][k])

\* this step ends a run of the importer
RunEnded == imp' # imp /\ imp'.pc = "idle"

\* C26: however a run of the importer ends, its connection is not left
\* open: a connection that was open is closed; when the run ends by an
\* exception it is re-raised, and if a connection was open the transaction
\* is rolled back, so table patients is as before the step.
C26_RunReleasesConnection ==
    [][RunEnded =>
         /\ imp'.conn # "open"
         /\ imp'.last \in {"done", "raised"}
         /\ imp.conn = "open" => imp'.conn = "closed"
         /\ imp.conn = "open" /\ imp'.last = "raised"
              => imp'.tx = "rolled_back" /\ patients' = patients /\ refs' = refs
         /\ imp'.last = "done" => imp.pc = "patients" /\ imp'.tx = "committed"]_vars

\* a first run has failed before anything was committed, with its
\* connection rolled back and closed
C26_Witness ==
    /\ imp.pc = "idle" /\ imp.last = "raised" /\ now = 1
    /\ imp.conn = "closed" /\ imp.tx = "rolled_back"
    /\ patients = <<>> /\ refs = NoRefs

\* the reference tables hold every name of the file of the running import
RefsOfRunCommitted == ImportReferenceData(refs, imp.csv) = refs

\* the patient rows of the file of the running import, all written
AllPatientsOfRun ==
    UpsertAll(patients, [i \in DOMAIN imp.csv |-> PatientTuple(refs, imp.csv[i], now)])

\* C27: a run commits twice.  The reference rows are committed by a step of
\* their own, which writes no patient row; patient rows are written only
\* once the reference rows of the run are committed, and all of them in one
\* step; a run that fails in import_patients leaves table patients as it
\* was and the reference rows of the run committed.
C27_TwoTransactions ==
    [][/\ refs' # refs => imp.pc = "refs" /\ patients' = patients
       /\ patients' # patients
            => /\ imp.pc = "patients" /\ refs' = refs
               /\ RefsOfRunCommitted
               /\ patients' = AllPatientsOfRun
       /\ imp.pc = "patients" /\ imp'.last = "raised"
            => patients' = patients /\ refs' = refs /\ RefsOfRunCommitted]_vars

\* the first run, on an empty store, has failed after its reference rows
\* were committed: they are there, and no patient row is
C27_Witness ==
    /\ imp.pc = "idle" /\ imp.last = "raised" /\ now = 1
    /\ imp.tx = "rolled_back"
    /\ patients = <<>>
    /\ refs.hospitals # <<>> /\ refs.doctors # <<>>

UpdatedColumns == {"age", "blood_pressure", "patient_satisfaction"}

\* the rows of the file of the running import that carry patient_id id
Incoming(id) == {k \in DOMAIN imp.csv : imp.csv[k].Patient_ID = id}

\* C28: when import_patients writes, a row that was stored keeps its place
\* and, if the file carries its patient_id, takes age, blood_pressure and
\* patient_satisfaction from the file and keeps every other column; a row
\* whose patient_id the file does not carry is left as it is.
C28_OnlyThreeColumnsUpdated ==
    [][patients' # patients =>
         /\ Len(patients') >= Len(patients)
         /\ \A i \in DOMAIN patients :
              /\ \A f \in DOMAIN patients[i] \ UpdatedColumns :
                    patients'[i][f] = patients[i][f]
              /\ \A k \in Incoming(patients[i].patient_id) :
                    /\ patients'[i].age = imp.csv[k].Age
                    /\ patients'[i].blood_pressure = imp.csv[k].Blood_Pressure
                    /\ patients'[i].patient_satisfaction =
                          imp.csv[k].Patient_Satisfaction
              /\ Incoming(patients[i].patient_id) = {}
                    => patients'[i] = patients[i]]_vars

\* the stored patient 1 has been imported again from a row with another
\* age, pressure, satisfaction, gender, heart rate and hospital: the first
\* three are the new ones, the others and created_at are the stored ones
C28_Witness ==
    /\ imp.last = "done"
    /\ \E i \in DOMAIN patients :
          /\ patients[i].patient_id = 1
          /\ patients[i].age = Some(130)
          /\ patients[i].blood_pressure = Some(59)
          /\ patients[i].patient_satisfaction = None
          /\ patients[i].gender = Some("Male")
          /\ patients[i].heart_rate = Some(70)
          /\ patients[i].hospital_id = Some(1)
          /\ patients[i].created_at = Some(0)

AnalyzeCalls == {"analyze_completeness", "analyze_duplicates",
                 "analyze_freshness", "analyze_consistency", "analyze_anomalies"}

\* the analyzer has no usable connection: connect() has not run, or close()
\* has closed the connection it holds
NoOpenConnection == conn = 0 \/ handles[conn] = "closed"

\* C29: an analyze_* method called while the analyzer has no open connection
\* fails with an error instead of a result; no analyze_* method opens (or
\* closes) a connection; and close() on an analyzer that never connected
\* changes nothing and does not fail.
C29_AnalyzeNeedsConnection ==
    [][/\ qres'.call \in AnalyzeCalls
            => /\ conn' = conn /\ handles' = handles
               /\ NoOpenConnection
                    => qres'.out.err \in {"no_connection", "connection_closed"}
       /\ qres'.call = "close" /\ conn = 0
            => conn' = 0 /\ handles' = handles /\ qres'.out.err = "none"]_vars

\* analyze_consistency has failed on the connection that close() had
\* closed, on a table with a record
C29_Witness ==
    /\ qres.call = "analyze_consistency"
    /\ qres.out.err = "connection_closed"
    /\ conn = 1 /\ handles = <<"closed">> /\ patients # <<>>

(***************************************************************************)
(* Property of profile_age_groups on records without an age                *)
(***************************************************************************)
\* the records no WHEN of the CASE takes: no age, or an age from 75
ElseRows == {i \in Rows : IsNull(patients[i].age) \/ Val(patients[i].age) >= 75}

\* ROUND(AVG(f), d) over the records S, in units of 1/m
AvgOver(S, f, m) ==
    LET T == {i \in S : ~IsNull(patients[i][f])}
        sum == SumOver(T, [i \in T |-> Val(patients[i][f])])
        n == Cardinality(T)
    IN  IF n = 0 THEN None ELSE Some((2 * m * sum + n) \div (2 * n))

\* C30: profile_age_groups counts a record without an age in the bucket
\* 75+, with the records aged 75 or more: the count of 75+ is the number of
\* all these records and its four averages are taken over all of them; no
\* other bucket counts a record without an age.
C30_NullAgeIn75Plus ==
    Called("age_groups") =>
        /\ Ok(qres.out)
        /\ ElseRows = {} => GroupRow("75+") = {}
        /\ ElseRows # {} => Cardinality(GroupRow("75+")) = 1
        /\ \A k \in GroupRow("75+") :
              LET g == qres.out.rows[k]
              IN  /\ g.patient_count = Cardinality(ElseRows)
                  /\ g.avg_blood_pressure = AvgOver(ElseRows, "blood_pressure", 10)
                  /\ g.avg_heart_rate = AvgOver(ElseRows, "heart_rate", 10)
                  /\ g.avg_recovery_time = AvgOver(ElseRows, "recovery_time", 10)
                  /\ g.avg_satisfaction =
                        AvgOver(ElseRows, "patient_satisfaction", 100)
        /\ \A l \in Buckets \ {"75+"} : \A k \in GroupRow(l) :
              qres.out.rows[k].patient_count =
                  Cardinality({i \in NonNullRows("age") :
                                  InBucket(l, Val(patients[i].age))})

\* a record without an age and with a pressure of 150 beside one aged 80
\* with 121: 75+ counts both and averages 135.5
C30_Witness ==
    /\ Called("age_groups")
    /\ \E i, j \in Rows :
          /\ IsNull(patients[i].age) /\ patients[i].blood_pressure = Some(150)
          /\ patients[j].age = Some(80) /\ patients[j].blood_pressure = Some(121)
    /\ \E k \in GroupRow("75+") :
          /\ qres.out.rows[k].patient_count = 2
          /\ qres.out.rows[k].avg_blood_pressure = Some(1355)

=============================================================================
